---- MODULE Spec2Model ----
(***************************************************************************)
(* A model of the candidate-search and matching core of                    *)
(* 1001tracklists-spotify-sync:                                            *)
(*   app/providers/spotify.py   SpotifyProvider (search cascade, filters,  *)
(*                              query builder)                             *)
(*   app/match.py               normalize_text, calculate_track_similarity,*)
(*                              find_matches                               *)
(*   app/models.py              Track, MatchResult, MatchStatus            *)
(*                                                                         *)
(* Python strings are sequences of one-character strings, so that          *)
(* lower(), strip(), split(), the `in` test and re.sub are computed        *)
(* character by character.  None for an optional string is the sequence    *)
(* NoneStr, which no real string equals; None for an optional integer is   *)
(* the empty sequence and the integer n is <<n>>.                          *)
(***************************************************************************)
EXTENDS Integers, Sequences, FiniteSets, TLC

VARIABLES
    \* ---- pure-function harness (PureSpec)
    pOp,        \* which function was applied last ("none" before any)
    pSrc,       \* the source Track argument
    pItems,     \* the catalog records the candidate list was converted from
    pCands,     \* the candidate list argument
    pOut,       \* the value returned by the last call
    pOut2,      \* the value returned by the repeated call of the query builder
                \* (TextSpec, SimSpec: by the second call)
    pText,      \* the string argument of normalize_text (TextSpec)
    \* ---- SpotifyProvider.search_track (SearchSpec)
    access_token,           \* whether self.access_token is set
    enable_duration_filter, \* self.enable_duration_filter
    input,      \* the Track passed by the caller
    track,      \* the local variable `track` (rebound after title normalisation)
    pc,         \* the strategy whose loop is running, "done" or "raised"
    queries,    \* the query list of the running strategy
    qi,         \* index of the next query of that list to issue
    calls,      \* every catalog call issued so far: [strategy, q]
    lastResp,   \* how the last call ended: a failure kind, "empty" or "ok"
    lastItems,  \* the records the catalog sent in answer to the last call
    isrcRecords,\* the records the catalog sent in answer to the ISRC lookup
    hits,       \* number of calls so far whose answer held at least one record
    result,     \* the returned list (meaningful when pc = "done")
    retFrom,    \* index in calls of the call whose candidates were returned, or 0
    \* ---- find_matches (MatchSpec)
    tracklist_tracks,   \* argument
    spotify_tracks,     \* argument (the candidate pool)
    min_confidence,     \* argument, a rational <<num, den>>
    mi,                 \* index of the next source track of the outer loop
    matches,            \* the list built so far
    \* ---- sync_tracklist_practical (SyncSpec)
    spc,                \* position: "loop", "searching", "done" or "raised"
    si,                 \* index of the track of the running iteration
    all_spotify_tracks, \* the list extended after every search_track
    events,             \* what happened so far: invocations of search_track,
                        \* catalog calls (a run of calls for one track is one
                        \* entry), returns of search_track and the argument
                        \* find_matches was called with
    \* ---- the playlist part of sync_tracklist_practical and of the web handler
    \*      sync (PlaylistSpec); add_tracks_to_playlist alone (AddSpec)
    via,                \* the function that runs
    dry_run,            \* argument of sync_tracklist_practical
    ppc,                \* position: "start", "resolve", "add_enter", "adding",
                        \* "returned" (add_tracks_to_playlist returned), "done"
                        \* or "raised"
    existing_playlist,  \* Optional[Playlist] found in the listing
    playlist_id,        \* Optional[str]
    track_ids,          \* the list passed to add_tracks_to_playlist
    ai,                 \* the offset i of the batch loop
    success,            \* what add_tracks_to_playlist returned ("none" before)
    plog,               \* the provider calls and the batch requests so far
    remote,             \* the tracks the target playlist holds in the catalog
    ret                 \* what the function returned ("none" before)

pureVars   == <<pOp, pSrc, pItems, pCands, pOut, pOut2, pText>>
searchVars == <<access_token, enable_duration_filter, input, track, pc, queries,
                qi, calls, lastResp, lastItems, isrcRecords, hits, result, retFrom>>
matchVars  == <<tracklist_tracks, spotify_tracks, min_confidence, mi, matches>>
playVars   == <<via, dry_run, ppc, existing_playlist, playlist_id, track_ids, ai,
                success, plog, remote, ret>>
syncVars   == <<spc, si, all_spotify_tracks, events, playVars>>
vars       == <<pureVars, searchVars, matchVars, syncVars>>

-----------------------------------------------------------------------------
(* Bounds of the model *)

\* longest catalog response (items per call) the model enumerates
MaxItems == 2
\* longest candidate list handed to the filters
MaxCands == 2
\* longest tracklist / candidate pool handed to find_matches
MaxTracks == 2
\* longest string handed to normalize_text
MaxText == 4
\* most words of a mix name handed to _strip_length_qualifiers
MaxWords == 2

-----------------------------------------------------------------------------
(* Python str operations, on sequences of characters *)

NoneStr == <<"None">>
Truthy(s) == s /= NoneStr /\ s /= <<>>

UpperAlpha == <<"A","B","C","D","E","F","G","H","I","J","K","L","M",
                "N","O","P","Q","R","S","T","U","V","W","X","Y","Z">>
LowerAlpha == <<"a","b","c","d","e","f","g","h","i","j","k","l","m",
                "n","o","p","q","r","s","t","u","v","w","x","y","z">>

LowerChar(c) ==
    IF \E i \in 1..Len(UpperAlpha) : UpperAlpha[i] = c
    THEN LowerAlpha[CHOOSE i \in 1..Len(UpperAlpha) : UpperAlpha[i] = c]
    ELSE c

\* str.lower()
Lower(s) == [i \in 1..Len(s) |-> LowerChar(s[i])]

\* the characters \s matches and str.strip() removes
IsSpace(c) == c \in {" ", "\t", "\n"}

RECURSIVE LStrip(_)
LStrip(s) == IF s /= <<>> /\ IsSpace(Head(s)) THEN LStrip(Tail(s)) ELSE s

RECURSIVE RStrip(_)
RStrip(s) ==
    IF s /= <<>> /\ IsSpace(s[Len(s)]) THEN RStrip(SubSeq(s, 1, Len(s) - 1)) ELSE s

\* str.strip()
Strip(s) == RStrip(LStrip(s))

\* sub in s
Contains(sub, s) ==
    \E i \in 0..(Len(s) - Len(sub)) : SubSeq(s, i + 1, i + Len(sub)) = sub

\* s.split(c)[0]: the text before the first occurrence of character c
RECURSIVE BeforeFirst(_, _)
BeforeFirst(s, c) ==
    IF s = <<>> \/ Head(s) = c THEN <<>>
    ELSE <<Head(s)>> \o BeforeFirst(Tail(s), c)

\* s.rfind(c): the last position of character c (1-based), 0 when absent
RFind(s, c) ==
    IF \E i \in 1..Len(s) : s[i] = c
    THEN CHOOSE i \in 1..Len(s) : s[i] = c /\ \A j \in (i + 1)..Len(s) : s[j] /= c
    ELSE 0

\* re.split on a set of one-character separators: every piece, empty ones too
RECURSIVE SplitOn(_, _)
SplitOn(s, seps) ==
    IF \E i \in 1..Len(s) : s[i] \in seps
    THEN LET i == CHOOSE k \in 1..Len(s) :
                      s[k] \in seps /\ \A j \in 1..(k - 1) : s[j] \notin seps
         IN  <<SubSeq(s, 1, i - 1)>> \o SplitOn(SubSeq(s, i + 1, Len(s)), seps)
    ELSE <<s>>

\* sep.join(parts)
RECURSIVE Join(_, _)
Join(parts, sep) ==
    IF parts = <<>> THEN <<>>
    ELSE IF Len(parts) = 1 THEN parts[1]
    ELSE parts[1] \o sep \o Join(Tail(parts), sep)

\* re.sub(r"\s+", " ", s)
RECURSIVE CollapseWs(_)
CollapseWs(s) ==
    IF s = <<>> THEN <<>>
    ELSE IF IsSpace(Head(s))
         THEN <<" ">> \o CollapseWs(LStrip(s))
         ELSE <<Head(s)>> \o CollapseWs(Tail(s))

\* str(n) for an integer n >= 0
Digits == <<"0","1","2","3","4","5","6","7","8","9">>
RECURSIVE IntToStr(_)
IntToStr(n) ==
    IF n < 10 THEN <<Digits[n + 1]>>
    ELSE IntToStr(n \div 10) \o <<Digits[(n % 10) + 1]>>

-----------------------------------------------------------------------------
(* models.py: Track *)

NoInt == <<>>

\* Optional[int] truthiness: None and 0 are falsy
IntTruthy(n) == n /= NoInt /\ n[1] /= 0

\* Track(...); the callers modelled here always pass a list for remixers
Track(title, artist, album, duration, external_id, source, isrc, mix_name, label, year, remixers) ==
    [title |-> title, artist |-> artist, album |-> album, duration |-> duration,
     external_id |-> external_id, source |-> source, isrc |-> isrc,
     mix_name |-> mix_name, label |-> label, year |-> year, remixers |-> remixers]

\* a copy of track t with title and mix_name replaced (the Track(...) calls that
\* copy every other field, `remixers=track.remixers or []` included)
CopyTrack(t, title, mix_name) ==
    Track(title, t.artist, t.album, t.duration, t.external_id, t.source, t.isrc,
          mix_name, t.label, t.year, t.remixers)

-----------------------------------------------------------------------------
(* spotify.py: _filter_by_duration *)

tolerance == 5

\* the loop of lines 601-604
RECURSIVE DurationLoop(_, _, _)
DurationLoop(cands, min_duration, max_duration) ==
    IF cands = <<>> THEN <<>>
    ELSE LET c == Head(cands)
             keep == IntTruthy(c.duration)
                     /\ min_duration <= c.duration[1]
                     /\ c.duration[1] <= max_duration
         IN  (IF keep THEN <<c>> ELSE <<>>)
             \o DurationLoop(Tail(cands), min_duration, max_duration)

\* mutant: the fallback to the original list is lost
filter_by_duration_nofallback(cands, tracklist_track) ==
    IF ~IntTruthy(tracklist_track.duration) THEN cands
    ELSE DurationLoop(cands, tracklist_track.duration[1] - tolerance,
                      tracklist_track.duration[1] + tolerance)

filter_by_duration(cands, tracklist_track) ==
    IF ~IntTruthy(tracklist_track.duration) THEN cands
    ELSE LET min_duration == tracklist_track.duration[1] - tolerance
             max_duration == tracklist_track.duration[1] + tolerance
             filtered == DurationLoop(cands, min_duration, max_duration)
         IN  IF filtered /= <<>> THEN filtered ELSE cands

-----------------------------------------------------------------------------
(* spotify.py: _prefer_exact_title_and_artist *)

\* the nested normalize_title
normalize_title(value) ==
    LET v == Lower(Strip(IF value = NoneStr THEN <<>> ELSE value))
    IN  IF Contains(<<"(">>, v) THEN Strip(BeforeFirst(v, "(")) ELSE v

\* [a.strip() for a in re.split(r",|&", artist) if a.strip()]
RECURSIVE StripNonEmpty(_)
StripNonEmpty(parts) ==
    IF parts = <<>> THEN <<>>
    ELSE (IF Strip(Head(parts)) /= <<>> THEN <<Strip(Head(parts))>> ELSE <<>>)
         \o StripNonEmpty(Tail(parts))

\* mutant: the artist string is split on "+" as well
split_artists_plus(artist) ==
    StripNonEmpty(SplitOn(IF artist = NoneStr THEN <<>> ELSE artist, {",", "&", "+"}))

split_artists(artist) ==
    StripNonEmpty(SplitOn(IF artist = NoneStr THEN <<>> ELSE artist, {",", "&"}))

\* the loop of lines 445-453
RECURSIVE PreferLoop(_, _, _)
PreferLoop(cands, acceptable_titles, bp_artists_lower) ==
    IF cands = <<>> THEN <<>>
    ELSE LET c == Head(cands)
             c_title_core == normalize_title(c.title)
             c_artist_lower == Lower(IF c.artist = NoneStr THEN <<>> ELSE c.artist)
             keep == /\ c_title_core \in acceptable_titles
                     /\ \E i \in 1..Len(bp_artists_lower) :
                            Contains(bp_artists_lower[i], c_artist_lower)
         IN  (IF keep THEN <<c>> ELSE <<>>)
             \o PreferLoop(Tail(cands), acceptable_titles, bp_artists_lower)

\* mutant: the artist must equal the candidate's whole artist string
prefer_exact_first_artist(cands, tracklist_track) ==
    LET names == split_artists(tracklist_track.artist)
    IN  SelectSeq(cands, LAMBDA c :
            /\ normalize_title(c.title) = normalize_title(tracklist_track.title)
            /\ \E i \in 1..Len(names) : Lower(names[i]) = Lower(c.artist))

prefer_exact_title_and_artist(cands, tracklist_track) ==
    LET bp_title_core == normalize_title(tracklist_track.title)
        acceptable_titles == {bp_title_core}
        bp_artists == split_artists(tracklist_track.artist)
        bp_artists_lower == [i \in 1..Len(bp_artists) |-> Lower(bp_artists[i])]
    IN  PreferLoop(cands, acceptable_titles, bp_artists_lower)

-----------------------------------------------------------------------------
(* spotify.py: _build_enhanced_queries *)

Quote       == <<"\"">>
sOriginalMix == <<"O","r","i","g","i","n","a","l"," ","M","i","x">>
sArtistOpen == <<" ","a","r","t","i","s","t",":","\"">>
sYear       == <<" ","y","e","a","r",":">>
sAlbumOpenSp == <<" ","a","l","b","u","m",":","\"">>
sAlbumOpen  == <<"a","l","b","u","m",":","\"">>

\* str.replace('"', '')
RECURSIVE RemoveQuotes(_)
RemoveQuotes(s) ==
    IF s = <<>> THEN <<>>
    ELSE (IF Head(s) = "\"" THEN <<>> ELSE <<Head(s)>>) \o RemoveQuotes(Tail(s))

\* the nested sanitize
sanitize(value) ==
    IF ~Truthy(value) THEN NoneStr ELSE Strip(RemoveQuotes(value))

\* track.mix_name and track.mix_name != "Original Mix"
HasMix(t) == Truthy(t.mix_name) /\ t.mix_name /= sOriginalMix

\* f"({track.mix_name})" in track.title or f"({track.mix_name}" in track.title
MixInTitle(t) ==
    \/ Contains(<<"(">> \o t.mix_name \o <<")">>, t.title)
    \/ Contains(<<"(">> \o t.mix_name, t.title)

\* the nested build_title
build_title(t, with_mix) ==
    IF with_mix /\ HasMix(t)
    THEN IF MixInTitle(t)
         THEN Quote \o t.title \o Quote
         ELSE Quote \o t.title \o <<" ","(">> \o t.mix_name \o <<")">> \o Quote
    ELSE Quote \o t.title \o Quote

\* queries.append(f'"{track.title}" "{remixer}"') for each remixer
RECURSIVE RemixerQueries(_, _)
RemixerQueries(title, remixers) ==
    IF remixers = <<>> THEN <<>>
    ELSE <<Quote \o title \o Quote \o <<" ">> \o Quote \o Head(remixers) \o Quote>>
         \o RemixerQueries(title, Tail(remixers))

\* the list `queries` before the duplicates are removed (lines 481-518)
raw_queries(t) ==
    LET title_with_mix == build_title(t, TRUE)
        title_plain == build_title(t, FALSE)
        album_name == sanitize(t.album)
        label_name == sanitize(t.label)
        hasYear == IntTruthy(t.year)
        y == IF hasYear THEN t.year[1] ELSE 0
        artistQ == sArtistOpen \o t.artist \o Quote
    IN  (IF hasYear
         THEN << title_with_mix \o artistQ \o sYear \o IntToStr(y),
                 title_with_mix \o artistQ \o sYear \o IntToStr(y - 1)
                     \o <<"-">> \o IntToStr(y + 1),
                 t.title \o <<" ">> \o t.artist \o sYear \o IntToStr(y) >>
         ELSE <<>>)
        \o << title_plain \o artistQ,
              t.title \o <<" ">> \o t.artist >>
        \o (IF HasMix(t) THEN <<title_with_mix>> ELSE <<>>)
        \o <<title_plain>>
        \o RemixerQueries(t.title, t.remixers)
        \o (IF Truthy(album_name)
            THEN (IF hasYear
                  THEN <<title_plain \o artistQ \o sAlbumOpenSp \o album_name
                          \o Quote \o sYear \o IntToStr(y)>>
                  ELSE <<>>)
                 \o << title_plain \o artistQ \o sAlbumOpenSp \o album_name \o Quote,
                       sAlbumOpen \o album_name \o Quote \o <<" ">> \o t.title >>
            ELSE <<>>)
        \o (IF Truthy(label_name)
            THEN <<title_plain \o artistQ \o <<" ">> \o label_name>>
            ELSE <<>>)

\* the loop of lines 521-526: `seen` is used for membership only
RECURSIVE UniqueLoop(_, _)
UniqueLoop(qs, seen) ==
    IF qs = <<>> THEN <<>>
    ELSE IF Head(qs) \notin seen
         THEN <<Head(qs)>> \o UniqueLoop(Tail(qs), seen \cup {Head(qs)})
         ELSE UniqueLoop(Tail(qs), seen)

\* mutant: the duplicates are not removed
build_enhanced_queries_dups(t) == raw_queries(t)

build_enhanced_queries(t) == UniqueLoop(raw_queries(t), {})

-----------------------------------------------------------------------------
(* spotify.py: _strip_extended_from_title, on a small regular-expression matcher *)

\* A pattern is a sequence of literal characters and of the two marks below.
\* Every pattern used here ends in a literal that is not white space, so the greedy
\* match of a white-space run never has to give characters back.
WsStar == "\\s*"
WsPlus == "\\s+"

RECURSIVE SkipSpaces(_, _)
SkipSpaces(s, i) ==
    IF i <= Len(s) /\ IsSpace(s[i]) THEN SkipSpaces(s, i + 1) ELSE i

\* where a match of pat that starts at position i ends (the position after its
\* last character), or 0 when pat does not match there; letters compare ignoring
\* case (re.IGNORECASE)
RECURSIVE MatchEnd(_, _, _)
MatchEnd(s, i, pat) ==
    IF pat = <<>> THEN i
    ELSE IF Head(pat) = WsStar THEN MatchEnd(s, SkipSpaces(s, i), Tail(pat))
    ELSE IF Head(pat) = WsPlus
         THEN IF i <= Len(s) /\ IsSpace(s[i])
              THEN MatchEnd(s, SkipSpaces(s, i), Tail(pat))
              ELSE 0
    ELSE IF i <= Len(s) /\ LowerChar(s[i]) = LowerChar(Head(pat))
         THEN MatchEnd(s, i + 1, Tail(pat))
         ELSE 0

\* re.sub(pat, '', s, flags=re.IGNORECASE), scanning from position i
RECURSIVE ReSubFrom(_, _, _)
ReSubFrom(s, i, pat) ==
    IF i > Len(s) THEN <<>>
    ELSE LET e == MatchEnd(s, i, pat)
         IN  IF e /= 0 THEN ReSubFrom(s, e, pat)
             ELSE <<s[i]>> \o ReSubFrom(s, i + 1, pat)

ReSub(s, pat) == ReSubFrom(s, 1, pat)

pExtended == <<"E","x","t","e","n","d","e","d">>

\* the list `patterns` of lines 559-567
patterns ==
    << <<WsStar, "(">> \o pExtended \o <<WsPlus, "M","i","x", ")">>,
       <<WsStar, "(">> \o pExtended \o <<")">>,
       <<WsStar, "(">> \o pExtended \o <<WsPlus, "E","d","i","t", ")">>,
       <<WsStar, "(">> \o pExtended \o <<WsPlus, "V","e","r","s","i","o","n", ")">>,
       <<WsStar, "(">> \o pExtended \o <<WsPlus, "R","e","w","o","r","k", ")">>,
       <<WsStar>> \o pExtended \o <<WsPlus, "M","i","x">>,
       <<WsStar>> \o pExtended >>

\* the loop of lines 570-571
RECURSIVE ApplyPatterns(_, _)
ApplyPatterns(s, pats) ==
    IF pats = <<>> THEN s ELSE ApplyPatterns(ReSub(s, Head(pats)), Tail(pats))

\* re.sub(r'\s*[\(\[]\s*$', '', s): a "(" or "[" that ends the string, with the
\* white space around it
DropTrailingBracket(s) ==
    LET r == RStrip(s)
    IN  IF r /= <<>> /\ r[Len(r)] \in {"(", "["}
        THEN RStrip(SubSeq(r, 1, Len(r) - 1))
        ELSE s

strip_extended_from_title(title) ==
    IF ~Truthy(title) THEN title
    ELSE LET result1 == ApplyPatterns(title, patterns)
             result2 == Strip(CollapseWs(result1))
         IN  Strip(DropTrailingBracket(result2))

-----------------------------------------------------------------------------
(* spotify.py: _strip_length_qualifiers and _primary_remixer_from_mix *)

UpperChar(c) ==
    IF \E i \in 1..Len(LowerAlpha) : LowerAlpha[i] = c
    THEN UpperAlpha[CHOOSE i \in 1..Len(LowerAlpha) : LowerAlpha[i] = c]
    ELSE c

IsLetter(c) == LowerChar(c) /= c \/ UpperChar(c) /= c

\* str.title(): a letter that follows a letter is lowercased, any other letter
\* is uppercased
TitleCase(s) ==
    [i \in 1..Len(s) |->
        IF i > 1 /\ IsLetter(s[i - 1]) THEN LowerChar(s[i]) ELSE UpperChar(s[i])]

\* s.replace(sub, ''), sub not empty
RECURSIVE Remove(_, _)
Remove(s, sub) ==
    IF Len(s) < Len(sub) THEN s
    ELSE IF SubSeq(s, 1, Len(sub)) = sub
         THEN Remove(SubSeq(s, Len(sub) + 1, Len(s)), sub)
         ELSE <<Head(s)>> \o Remove(Tail(s), sub)

\* s.split(): the words of s
RECURSIVE Words(_)
Words(s) ==
    LET t == LStrip(s)
    IN  IF t = <<>> THEN <<>>
        ELSE LET n == IF \E i \in 1..Len(t) : IsSpace(t[i])
                      THEN (CHOOSE i \in 1..Len(t) :
                               IsSpace(t[i]) /\ \A j \in 1..(i - 1) : ~IsSpace(t[j])) - 1
                      ELSE Len(t)
             IN  <<SubSeq(t, 1, n)>> \o Words(SubSeq(t, n + 1, Len(t)))

\* the list `tokens` of lines 538-540
tokens ==
    << <<"e","x","t","e","n","d","e","d">>, <<"e","d","i","t">>, <<"c","l","u","b">>,
       <<"c","l","u","b"," ","m","i","x">>, <<"r","a","d","i","o">>,
       <<"r","a","d","i","o"," ","e","d","i","t">>, <<"d","u","b">>, <<"v","i","p">>,
       <<"v","e","r","s","i","o","n">> >>

\* the loop of lines 542-543
RECURSIVE RemoveTokens(_, _)
RemoveTokens(out, ts) ==
    IF ts = <<>> THEN out
    ELSE RemoveTokens(Remove(Remove(out, Head(ts)), TitleCase(Head(ts))), Tail(ts))

sRemixLower == <<"r","e","m","i","x">>
sRemix      == <<"R","e","m","i","x">>

strip_length_qualifiers(mix_name) ==
    IF ~Truthy(mix_name) THEN mix_name
    ELSE LET out1 == RemoveTokens(mix_name, tokens)
             out2 == Join(Words(out1), <<" ">>)
             out3 == IF Contains(sRemixLower, Lower(mix_name))
                        /\ ~Contains(sRemixLower, Lower(out2))
                     THEN Strip(out2 \o <<" ">> \o sRemix)
                     ELSE out2
         IN  Strip(out3)

\* s.split(sub)[0]: the text before the first occurrence of sub
RECURSIVE BeforeFirstSub(_, _)
BeforeFirstSub(s, sub) ==
    IF Len(s) < Len(sub) THEN s
    ELSE IF SubSeq(s, 1, Len(sub)) = sub THEN <<>>
    ELSE <<Head(s)>> \o BeforeFirstSub(Tail(s), sub)

primary_remixer_from_mix(mix_name) ==
    IF ~Truthy(mix_name) THEN NoneStr
    ELSE LET parts == Strip(BeforeFirstSub(mix_name, sRemix))
         IN  IF parts /= <<>> /\ Len(Words(parts)) <= 4 THEN parts ELSE NoneStr

-----------------------------------------------------------------------------
(* The catalog's raw records and their conversion to Track *)

\* one element of data['tracks']['items']
Item(name, artists, album, duration_ms, id, release_date) ==
    [name |-> name, artists |-> artists, album |-> album,
     duration_ms |-> duration_ms, id |-> id, release_date |-> release_date]

sSpotify == <<"s","p","o","t","i","f","y">>

\* the Track(...) built from an item by the text-search loops (lines 164-174)
ItemToTrack(item) ==
    Track(item.name, Join(item.artists, <<",", " ">>), item.album,
          <<item.duration_ms \div 1000>>, item.id, sSpotify, NoneStr, NoneStr, NoneStr,
          IF Truthy(item.release_date)
          THEN SubSeq(item.release_date, 1,
                      IF Len(item.release_date) < 4 THEN Len(item.release_date) ELSE 4)
          ELSE NoInt,
          <<>>)

\* the Track(...) built by _search_by_isrc (lines 405-414): no year
IsrcItemToTrack(item) ==
    Track(item.name, Join(item.artists, <<",", " ">>), item.album,
          <<item.duration_ms \div 1000>>, item.id, sSpotify, NoneStr, NoneStr, NoneStr,
          NoInt, <<>>)

ConvertItems(items) == [i \in 1..Len(items) |-> ItemToTrack(items[i])]
ConvertIsrcItems(items) == [i \in 1..Len(items) |-> IsrcItemToTrack(items[i])]

-----------------------------------------------------------------------------
(* Sample values the inputs are drawn from *)

sOpus == <<"O","p","u","s">>
sOpusExt == <<"O","p","u","s"," ","(","E","x","t","e","n","d","e","d"," ","M","i","x",")">>
sOpusLive == <<"O","p","u","s"," ","(","L","i","v","e",")">>
sOpusUp == <<" ","O","P","U","S">>
sOpusMal == <<"O","p","u","s"," "," ","(","E","x","t","e","n","d","e","d"," ","M","i","x">>
s1973 == <<"1","9","7","3">>
sStrobe == <<"S","t","r","o","b","e">>
sRoots == <<"R","o","o","t","s">>
sGoClub == <<"G","o"," ","(","C","l","u","b"," ","M","i","x",")">>
sPrydz == <<"E","r","i","c"," ","P","r","y","d","z">>
sSultanColyn == <<"S","u","l","t","a","n"," ","+"," ","S","h","e","p","a","r","d",","," ","C","o","l","y","n">>
sSultan == <<"S","u","l","t","a","n"," ","+"," ","S","h","e","p","a","r","d">>
sColyn == <<"C","o","l","y","n">>
sDeadmau5 == <<"d","e","a","d","m","a","u","5">>
sAmeDixon == <<"A","m","e"," ","&"," ","D","i","x","o","n">>
sDixon == <<"D","i","x","o","n">>
sOther == <<"O","t","h","e","r">>
sExtendedMix == <<"E","x","t","e","n","d","e","d"," ","M","i","x">>
sClubMix == <<"C","l","u","b"," ","M","i","x">>
sRemixMix == <<"D","J"," ","X"," ","E","x","t","e","n","d","e","d"," ","R","e","m","i","x">>
sDJX == <<"D","J"," ","X">>
sIsrc == <<"U","S","U","M","7","1","0","2","9","2","6","0">>
sAlbum == <<"R","o","o","t","s"," ","\"","E","P","\"">>
sLabel == <<"L","B","L">>
sTracklist == <<"t","r","a","c","k","l","i","s","t">>
sDate == <<"2","0","1","6","-","0","1","-","0","2">>

\* a tracklist entry
Src(title, artist, duration, isrc, mix_name) ==
    Track(title, artist, <<>>, duration, NoneStr, sTracklist, isrc, mix_name,
          NoneStr, NoInt, <<>>)

tStrobe  == Src(sStrobe, sDeadmau5, NoInt, sIsrc, NoneStr)
tOpus    == Src(sOpusExt, sPrydz, <<480>>, NoneStr, sExtendedMix)
tOpusMal == Src(sOpusMal, sPrydz, <<480>>, sIsrc, sExtendedMix)
t1973    == Src(s1973, sSultanColyn, <<480>>, NoneStr, NoneStr)
t1973Ext == Src(s1973, sSultanColyn, NoInt, NoneStr, sExtendedMix)
tGo      == Track(sGoClub, sDixon, <<>>, <<0>>, NoneStr, sTracklist, NoneStr, sClubMix,
                  NoneStr, <<2020>>, <<>>)
tRoots   == Track(sRoots, sAmeDixon, sAlbum, <<100>>, NoneStr, sTracklist, NoneStr,
                  sRemixMix, sLabel, <<2020>>, <<sDJX, sDJX>>)
tOrig    == Src(sOpusUp, <<",", " ", "&">>, <<480>>, NoneStr, sOriginalMix)

SourceTracks == {tStrobe, tOpus, tOpusMal, t1973, t1973Ext, tGo, tRoots, tOrig}

\* an Original Mix with a release year
tOrigYear == Track(sOpus, sPrydz, <<>>, <<480>>, NoneStr, sTracklist, NoneStr,
                   sOriginalMix, NoneStr, <<2016>>, <<>>)

\* the tracks handed to the filters and the query builder
PureTracks == SourceTracks \cup {tOrigYear}

iOpus402   == Item(sOpus, <<sPrydz>>, sOpus, 402000, <<"i","1">>, sDate)
iOpusLive  == Item(sOpusLive, <<sPrydz>>, sOpus, 485999, <<"i","2">>, NoneStr)
iOpusOther == Item(sOpusUp, <<sOther>>, sOpus, 474999, <<"i","3">>, sDate)
i1973a     == Item(s1973, <<sColyn, sSultan>>, s1973, 475000, <<"i","4">>, sDate)
i1973b     == Item(s1973, <<sSultan, sColyn>>, s1973, 486000, <<"i","5">>, sDate)
iStrobe    == Item(sStrobe, <<sDeadmau5>>, sStrobe, 999, <<"i","6">>, <<>>)
iRoots     == Item(sRoots, <<sDixon>>, sRoots, 105000, <<"i","7">>, sDate)

Items == {iOpus402, iOpusLive, iOpusOther, i1973a, i1973b, iStrobe, iRoots}

\* the sequences over S of length at most n
SeqsUpTo(S, n) == UNION {[1..k -> S] : k \in 0..n}

-----------------------------------------------------------------------------
(* PureSpec: the filters and the query builder applied to drawn arguments *)

SearchIdle ==
    /\ access_token = FALSE /\ enable_duration_filter = FALSE
    /\ input = tStrobe /\ track = tStrobe /\ pc = "idle"
    /\ queries = <<>> /\ qi = 0 /\ calls = <<>> /\ lastResp = "none"
    /\ lastItems = <<>> /\ isrcRecords = <<>> /\ hits = 0
    /\ result = <<>> /\ retFrom = 0

MatchIdle ==
    /\ tracklist_tracks = <<>> /\ spotify_tracks = <<>>
    /\ min_confidence = <<0, 1>> /\ mi = 0 /\ matches = <<>>

PureIdle ==
    /\ pOp = "idle" /\ pSrc = tStrobe /\ pItems = <<>> /\ pCands = <<>>
    /\ pOut = <<>> /\ pOut2 = <<>> /\ pText = <<>>

PlayIdle ==
    /\ via = "none" /\ dry_run = FALSE /\ ppc = "idle"
    /\ existing_playlist = <<>> /\ playlist_id = NoneStr /\ track_ids = <<>>
    /\ ai = 0 /\ success = "none" /\ plog = <<>> /\ remote = <<>> /\ ret = "none"

LoopIdle ==
    /\ spc = "idle" /\ si = 0
    /\ all_spotify_tracks = <<>> /\ events = <<>>

SyncIdle == LoopIdle /\ PlayIdle

PureInit ==
    /\ pOp = "none"
    /\ pSrc \in PureTracks
    /\ pItems \in SeqsUpTo(Items, MaxCands)
    /\ pCands = ConvertItems(pItems)
    /\ pOut = <<>> /\ pOut2 = <<>> /\ pText = <<>>
    /\ SearchIdle /\ MatchIdle /\ SyncIdle

ApplyFilterByDuration ==
    /\ pOp = "none"
    /\ pOp' = "filter_by_duration"
    /\ pOut' = filter_by_duration(pCands, pSrc)
    /\ UNCHANGED <<pSrc, pItems, pCands, pOut2, pText, searchVars, matchVars, syncVars>>

ApplyPreferExact ==
    /\ pOp = "none"
    /\ pOp' = "prefer_exact"
    /\ pOut' = prefer_exact_title_and_artist(pCands, pSrc)
    /\ UNCHANGED <<pSrc, pItems, pCands, pOut2, pText, searchVars, matchVars, syncVars>>

ApplyBuildQueries ==
    /\ pOp = "none"
    /\ pOp' = "build_queries"
    /\ pOut' = build_enhanced_queries(pSrc)
    /\ UNCHANGED <<pSrc, pItems, pCands, pOut2, pText, searchVars, matchVars, syncVars>>

\* the same call once more, on the same track
ApplyBuildQueriesAgain ==
    /\ pOp = "build_queries"
    /\ pOp' = "build_queries_twice"
    /\ pOut2' = build_enhanced_queries(pSrc)
    /\ UNCHANGED <<pSrc, pItems, pCands, pOut, pText, searchVars, matchVars, syncVars>>

PureNext ==
    \/ ApplyFilterByDuration
    \/ ApplyPreferExact
    \/ ApplyBuildQueries
    \/ ApplyBuildQueriesAgain

PureSpec == PureInit /\ [][PureNext]_vars

-----------------------------------------------------------------------------
(* spotify.py: search_track, the query list of each strategy *)

sExtendedLower == <<"e","x","t","e","n","d","e","d">>
sIsrcPrefix    == <<"i","s","r","c",":">>

\* lines 48-56: close an unclosed "(" and collapse the white space
normalized_title(title) ==
    LET closed ==
            IF Contains(<<"(">>, title)
               /\ ~Contains(<<")">>, SubSeq(title, RFind(title, "("), Len(title)))
            THEN title \o <<")">>
            ELSE title
    IN  Strip(CollapseWs(closed))

\* lines 57-75: `track` is rebound to a copy when the title changed
normalized_track(t) ==
    IF normalized_title(t.title) /= t.title
    THEN CopyTrack(t, normalized_title(t.title), t.mix_name)
    ELSE t

\* track.mix_name and 'extended' in track.mix_name.lower()
ExtendedMix(t) == Truthy(t.mix_name) /\ Contains(sExtendedLower, Lower(t.mix_name))

\* mutant: the Extended base retry runs before the per-artist fallback
Strategies_swapped ==
    <<"isrc", "fast_path", "enhanced", "base_retry", "per_artist", "trimmed_mix",
      "last_resort">>

\* the order in which search_track runs its strategies
Strategies ==
    <<"isrc", "fast_path", "enhanced", "per_artist", "base_retry", "trimmed_mix",
      "last_resort">>

\* Strategy 1: the q parameter of _search_by_isrc
isrc_queries(t) == IF Truthy(t.isrc) THEN <<sIsrcPrefix \o t.isrc>> ELSE <<>>

\* Strategy 1.5 (lines 90-120): base_queries
fast_path_queries(t) ==
    IF ExtendedMix(t)
    THEN LET base_title == strip_extended_from_title(t.title)
         IN  IF base_title /= t.title
             THEN build_enhanced_queries(CopyTrack(t, base_title, NoneStr))
             ELSE <<>>
    ELSE <<>>

\* Strategy 2 (line 147)
enhanced_queries(t) == build_enhanced_queries(t)

\* lines 218-221
RECURSIVE PerArtistLoop(_, _, _)
PerArtistLoop(artists, title_plain, title_with_mix) ==
    IF artists = <<>> THEN <<>>
    ELSE <<title_plain \o sArtistOpen \o Head(artists) \o Quote>>
         \o (IF title_with_mix /= NoneStr
             THEN <<title_with_mix \o sArtistOpen \o Head(artists) \o Quote>>
             ELSE <<>>)
         \o PerArtistLoop(Tail(artists), title_plain, title_with_mix)

\* Fallback A (lines 204-221): per_artist_queries
per_artist_queries(t) ==
    LET individual_artists == IF Truthy(t.artist) THEN split_artists(t.artist) ELSE <<>>
        title_plain == Quote \o t.title \o Quote
        title_with_mix ==
            IF HasMix(t)
            THEN IF MixInTitle(t)
                 THEN Quote \o t.title \o Quote
                 ELSE Quote \o t.title \o <<" ", "(">> \o t.mix_name \o <<")">> \o Quote
            ELSE NoneStr
    IN  PerArtistLoop(individual_artists, title_plain, title_with_mix)

\* lines 277-279
RECURSIVE BaseArtistLoop(_, _)
BaseArtistLoop(artists, base_title) ==
    IF artists = <<>> THEN <<>>
    ELSE << Quote \o base_title \o Quote \o sArtistOpen \o Head(artists) \o Quote,
            Quote \o base_title \o Quote \o <<" ">> \o Quote \o Head(artists) \o Quote >>
         \o BaseArtistLoop(Tail(artists), base_title)

\* Strategy 2.5 (lines 251-279): base_queries
base_retry_queries(t) ==
    IF ExtendedMix(t)
    THEN LET base_title == strip_extended_from_title(t.title)
             individual_artists ==
                 IF Truthy(t.artist) THEN split_artists(t.artist) ELSE <<>>
         IN  IF base_title /= t.title
             THEN << Quote \o base_title \o Quote \o sArtistOpen \o t.artist \o Quote,
                     Quote \o base_title \o Quote \o <<" ">> \o t.artist,
                     Quote \o base_title \o Quote >>
                  \o BaseArtistLoop(individual_artists, base_title)
             ELSE <<>>
    ELSE <<>>

\* the trimmed-mix fallback (lines 308-329): queries2
trimmed_mix_queries(t) ==
    IF Truthy(t.mix_name)
    THEN LET trimmed == strip_length_qualifiers(t.mix_name)
             primary_remixer == primary_remixer_from_mix(trimmed)
         IN  IF trimmed /= t.mix_name
             THEN build_enhanced_queries(CopyTrack(t, t.title, trimmed))
                  \o (IF Truthy(primary_remixer)
                      THEN <<Quote \o t.title \o Quote \o <<" ">>
                              \o Quote \o primary_remixer \o Quote>>
                      ELSE <<>>)
             ELSE <<>>
    ELSE <<>>

\* lines 360-361
RECURSIVE LastResortLoop(_, _)
LastResortLoop(artists, title) ==
    IF artists = <<>> THEN <<>>
    ELSE <<Quote \o title \o Quote \o <<" ">> \o Quote \o Head(artists) \o Quote>>
         \o LastResortLoop(Tail(artists), title)

\* Fallback B (lines 357-361): last_resort_queries
last_resort_queries(t) ==
    <<Quote \o t.title \o Quote>>
    \o LastResortLoop(IF Truthy(t.artist) THEN split_artists(t.artist) ELSE <<>>,
                      t.title)

StrategyQueries(strategy, t) ==
    CASE strategy = "isrc"        -> isrc_queries(t)
      [] strategy = "fast_path"   -> fast_path_queries(t)
      [] strategy = "enhanced"    -> enhanced_queries(t)
      [] strategy = "per_artist"  -> per_artist_queries(t)
      [] strategy = "base_retry"  -> base_retry_queries(t)
      [] strategy = "trimmed_mix" -> trimmed_mix_queries(t)
      [] strategy = "last_resort" -> last_resort_queries(t)

StrategyIndex(strategy) == CHOOSE k \in 1..Len(Strategies) : Strategies[k] = strategy

-----------------------------------------------------------------------------
(* spotify.py: search_track, the catalog calls and what each response does *)

\* How a catalog call can end: the request raises, raise_for_status() raises on a
\* status that is not 2xx, the body cannot be read as the expected JSON, or the
\* items arrive.
FailureKinds == {"network_error", "http_error", "malformed"}

SearchItems == {iOpus402, iOpusLive, i1973a, iRoots}

Responses ==
    {[kind |-> k, items |-> <<>>] : k \in FailureKinds}
        \cup {[kind |-> "ok", items |-> its] : its \in SeqsUpTo(SearchItems, MaxItems)}

\* the strategies whose call, conversion and filtering sit inside try/except
\* Exception (for "isrc" both in _search_by_isrc and around its call)
Handled ==
    {"isrc", "fast_path", "enhanced", "per_artist", "base_retry", "trimmed_mix",
     "last_resort"}

\* the list the converted response of a call is turned into
Converted(strategy, resp) ==
    IF resp.kind /= "ok" THEN <<>>
    ELSE IF strategy = "isrc" THEN ConvertIsrcItems(resp.items)
    ELSE ConvertItems(resp.items)

\* mutant: an Extended mix_name does not switch the duration filter off
enhanced_accept_no_relax(found, t, edf) ==
    LET preferred == prefer_exact_title_and_artist(found, t)
        filtered_tracks == IF edf THEN filter_by_duration(found, t) ELSE found
    IN  IF preferred /= <<>> THEN preferred ELSE filtered_tracks

\* mutant: only the candidates within tolerance are accepted, and a query with
\* none of them is skipped
enhanced_accept_strict(found, t, edf) ==
    LET preferred == prefer_exact_title_and_artist(found, t)
        use_duration_filter == edf /\ ~ExtendedMix(t)
        filtered_tracks == IF use_duration_filter /\ IntTruthy(t.duration)
                           THEN DurationLoop(found, t.duration[1] - tolerance,
                                             t.duration[1] + tolerance)
                           ELSE found
    IN  IF preferred /= <<>> THEN preferred ELSE filtered_tracks

\* lines 176-193: what the enhanced strategy returns for a non-empty conversion
enhanced_accept(found, t, edf) ==
    LET preferred == prefer_exact_title_and_artist(found, t)
        use_duration_filter == edf /\ ~ExtendedMix(t)
        filtered_tracks == IF use_duration_filter THEN filter_by_duration(found, t)
                           ELSE found
    IN  IF preferred /= <<>> THEN preferred ELSE filtered_tracks

\* mutant: the fast path filters what it found by duration
Accepted_filtered(strategy, resp, t, edf) ==
    LET found == Converted(strategy, resp)
    IN  IF found = <<>> THEN <<>>
        ELSE IF strategy = "enhanced" THEN enhanced_accept(found, t, edf)
        ELSE IF strategy = "fast_path" THEN filter_by_duration(found, t)
        ELSE found

\* mutant: an ISRC hit is filtered by duration like a text-search result
Accepted_isrc_filtered(strategy, resp, t, edf) ==
    LET found == Converted(strategy, resp)
    IN  IF found = <<>> THEN <<>>
        ELSE IF strategy = "enhanced" THEN enhanced_accept(found, t, edf)
        ELSE IF strategy = "isrc" THEN filter_by_duration(found, t)
        ELSE found

\* the list a strategy returns after a response; <<>> when its loop goes on
Accepted(strategy, resp, t, edf) ==
    LET found == Converted(strategy, resp)
    IN  IF found = <<>> THEN <<>>
        ELSE IF strategy = "enhanced" THEN enhanced_accept(found, t, edf)
        ELSE found

RECURSIVE FirstCallFrom_giveup(_, _)
\* mutant: the fallbacks after the enhanced queries are never tried
FirstCallFrom_giveup(k, t) ==
    IF k > 3 THEN [pc |-> "done", queries |-> <<>>, qi |-> 0]
    ELSE IF StrategyQueries(Strategies[k], t) /= <<>>
         THEN [pc |-> Strategies[k], queries |-> StrategyQueries(Strategies[k], t),
               qi |-> 1]
         ELSE FirstCallFrom_giveup(k + 1, t)

\* the first strategy from position k on that has a query to issue, or the final
\* `return []`
RECURSIVE FirstCallFrom(_, _)
FirstCallFrom(k, t) ==
    IF k > Len(Strategies) THEN [pc |-> "done", queries |-> <<>>, qi |-> 0]
    ELSE IF StrategyQueries(Strategies[k], t) /= <<>>
         THEN [pc |-> Strategies[k], queries |-> StrategyQueries(Strategies[k], t),
               qi |-> 1]
         ELSE FirstCallFrom(k + 1, t)

\* mutant: a failed call ends the search with the empty list
AfterCall_abort(strategy, qs, i, resp, t, edf) ==
    LET acc == Accepted(strategy, resp, t, edf)
    IN  IF resp.kind /= "ok"
        THEN [pc |-> "done", queries |-> <<>>, qi |-> 0, result |-> <<>>, returned |-> FALSE]
        ELSE IF acc /= <<>>
        THEN [pc |-> "done", queries |-> qs, qi |-> i, result |-> acc, returned |-> TRUE]
        ELSE IF i < Len(qs)
        THEN [pc |-> strategy, queries |-> qs, qi |-> i + 1, result |-> <<>>, returned |-> FALSE]
        ELSE FirstCallFrom(StrategyIndex(strategy) + 1, t)
                 @@ [result |-> <<>>, returned |-> FALSE]

\* where search_track stands after query i of `strategy` received resp
AfterCall(strategy, qs, i, resp, t, edf) ==
    LET acc == Accepted(strategy, resp, t, edf)
    IN  IF resp.kind /= "ok" /\ strategy \notin Handled
        THEN [pc |-> "raised", queries |-> qs, qi |-> i, result |-> <<>>, returned |-> FALSE]
        ELSE IF acc /= <<>>
        THEN [pc |-> "done", queries |-> qs, qi |-> i, result |-> acc, returned |-> TRUE]
        ELSE IF i < Len(qs)
        THEN [pc |-> strategy, queries |-> qs, qi |-> i + 1, result |-> <<>>, returned |-> FALSE]
        ELSE FirstCallFrom(StrategyIndex(strategy) + 1, t)
                 @@ [result |-> <<>>, returned |-> FALSE]

SearchInit ==
    /\ access_token \in BOOLEAN
    /\ enable_duration_filter \in BOOLEAN
    /\ input \in SourceTracks
    /\ track = input
    /\ pc = "start"
    /\ queries = <<>> /\ qi = 0 /\ calls = <<>> /\ lastResp = "none"
    /\ lastItems = <<>> /\ isrcRecords = <<>> /\ hits = 0
    /\ result = <<>> /\ retFrom = 0
    /\ PureIdle /\ MatchIdle /\ SyncIdle

\* lines 44-76 and the way to the first call, in terms of search_track's own
\* state
EnterStep ==
    /\ pc = "start"
    /\ IF ~access_token
       THEN /\ pc' = "raised"
            /\ UNCHANGED <<track, queries, qi>>
       ELSE LET t == normalized_track(input)
                first == FirstCallFrom(1, t)
            IN  /\ track' = t
                /\ pc' = first.pc
                /\ queries' = first.queries
                /\ qi' = first.qi
    /\ UNCHANGED <<access_token, enable_duration_filter, input, calls, lastResp,
                   lastItems, isrcRecords, hits, result, retFrom>>

Enter == EnterStep /\ UNCHANGED <<pureVars, matchVars, syncVars>>

StrategySet == {Strategies[k] : k \in 1..Len(Strategies)}

\* one catalog call of the running strategy (session.get on /search) and the
\* handling of its response, up to the next call or the return, in terms of
\* search_track's own state; R is the set of answers the catalog may give
CatalogCallStep(R) ==
    /\ pc \in StrategySet
    /\ \E resp \in R :
          LET after == AfterCall(pc, queries, qi, resp, track, enable_duration_filter)
          IN  /\ calls' = Append(calls, [strategy |-> pc, q |-> queries[qi]])
              /\ lastResp' = (IF resp.kind = "ok" /\ resp.items = <<>>
                              THEN "empty" ELSE resp.kind)
              /\ pc' = after.pc
              /\ queries' = after.queries
              /\ qi' = after.qi
              /\ result' = after.result
              /\ lastItems' = resp.items
              /\ isrcRecords' = (IF pc = "isrc" THEN resp.items ELSE isrcRecords)
              /\ hits' = (IF resp.kind = "ok" /\ Len(resp.items) > 0
                          THEN hits + 1 ELSE hits)
              /\ retFrom' = (IF after.returned THEN Len(calls) + 1 ELSE 0)
    /\ UNCHANGED <<access_token, enable_duration_filter, input, track>>

CatalogCall == CatalogCallStep(Responses) /\ UNCHANGED <<pureVars, matchVars, syncVars>>

SearchNext ==
    \/ Enter
    \/ CatalogCall

SearchSpec == SearchInit /\ [][SearchNext]_vars

\* search_track moves on: it leaves the entry, or a call returns and its handling
\* ends at the next query, at the first query of a later strategy or at a return
Advance ==
    /\ pc \in StrategySet \cup {"start"}
    /\ pc' \in StrategySet \cup {"done", "raised"}
    /\ qi' \in {0, 1, qi + 1}

\* every catalog call returns: search_track does not stand still for ever while
\* it has a step to take (every step of SearchNext changes pc or qi)
SearchFairSpec == SearchInit /\ [][SearchNext]_vars /\ WF_<<pc, qi>>(Advance)

-----------------------------------------------------------------------------
(* Claims about the filters and the query builder (PureSpec) *)

\* the candidate's duration lies within 5 seconds of the source duration
WithinTolerance(c, src) ==
    /\ src.duration /= NoInt /\ c.duration /= NoInt
    /\ src.duration[1] - 5 <= c.duration[1]
    /\ c.duration[1] <= src.duration[1] + 5

\* C7: _filter_by_duration never returns an empty list for a non-empty candidate
\* list, and returns the original list when no candidate is within tolerance.
C7_FilterNeverEmpties ==
    pOp = "filter_by_duration" =>
        /\ pCands /= <<>> => pOut /= <<>>
        /\ (\A i \in 1..Len(pCands) : ~WithinTolerance(pCands[i], pSrc))
               => pOut = pCands

\* a non-empty list, a source duration that filters, and no candidate within range
C7_Witness ==
    /\ pOp = "filter_by_duration"
    /\ pCands /= <<>>
    /\ IntTruthy(pSrc.duration)
    /\ \A i \in 1..Len(pCands) : ~WithinTolerance(pCands[i], pSrc)
    /\ pOut = pCands

\* the title lowercased, cut at its first "(" and trimmed
TitleCore(title) ==
    LET l == Lower(title)
        cut == IF \E i \in 1..Len(l) : l[i] = "("
               THEN (CHOOSE i \in 1..Len(l) :
                        l[i] = "(" /\ \A j \in 1..(i - 1) : l[j] /= "(") - 1
               ELSE Len(l)
    IN  Strip(SubSeq(l, 1, cut))

\* the names of an artist string: its pieces between "," and "&", trimmed, the
\* empty ones dropped
ArtistNames(artist) ==
    LET parts == SplitOn(artist, {",", "&"})
    IN  {Strip(parts[i]) : i \in 1..Len(parts)} \ {<<>>}

\* what C9 says a preferred candidate is
IsPreferred(c, src) ==
    /\ TitleCore(c.title) = TitleCore(src.title)
    /\ \E a \in ArtistNames(src.artist) : Contains(Lower(a), Lower(c.artist))

\* the items have the same name and list the same artists, in any order
SameArtistsReordered(i1, i2) ==
    /\ i1.name = i2.name
    /\ Len(i1.artists) = Len(i2.artists)
    /\ \E f \in [1..Len(i1.artists) -> 1..Len(i1.artists)] :
          /\ \A j, k \in 1..Len(i1.artists) : j /= k => f[j] /= f[k]
          /\ \A j \in 1..Len(i1.artists) : i2.artists[j] = i1.artists[f[j]]

\* C9: _prefer_exact_title_and_artist returns exactly the candidates, in input
\* order, whose title core equals the source's and whose artist string contains
\* one of the source's artist names, case-insensitively; two candidates that list
\* the same artists in a different order are both accepted or both rejected.
C9_PreferExact ==
    pOp = "prefer_exact" =>
        /\ pOut = SelectSeq(pCands, LAMBDA c : IsPreferred(c, pSrc))
        /\ \A i, j \in 1..Len(pItems) :
              SameArtistsReordered(pItems[i], pItems[j]) =>
                  ((\E k \in 1..Len(pOut) : pOut[k] = pCands[i])
                     <=> (\E k \in 1..Len(pOut) : pOut[k] = pCands[j]))

\* a candidate with the source's artists in another order is accepted, next to a
\* rejected one (Scenario C)
C9_Witness ==
    /\ pOp = "prefer_exact"
    /\ pSrc.artist = sSultanColyn
    /\ Len(pCands) = 2
    /\ pCands[1].artist = Join(<<sColyn, sSultan>>, <<",", " ">>)
    /\ pOut = <<pCands[1]>>

-----------------------------------------------------------------------------
(* app/match.py *)

\* the list `common_words` of line 18
common_words ==
    {<<"t","h","e">>,
     <<"a">>,
     <<"a","n">>,
     <<"a","n","d">>,
     <<"o","r">>,
     <<"b","u","t">>,
     <<"i","n">>,
     <<"o","n">>,
     <<"a","t">>,
     <<"t","o">>,
     <<"f","o","r">>,
     <<"o","f">>,
     <<"w","i","t","h">>,
     <<"b","y">>}

RECURSIVE DropCommon(_)
\* [word for word in words if word not in common_words] (line 20)
DropCommon(words) ==
    IF words = <<>> THEN <<>>
    ELSE IF Head(words) \in common_words THEN DropCommon(Tail(words))
    ELSE <<Head(words)>> \o DropCommon(Tail(words))

\* mutant: the text is lowercased after the common words were dropped
normalize_text_late_lower(text) ==
    IF ~Truthy(text) THEN <<>>
    ELSE Lower(Join(DropCommon(Words(CollapseWs(Strip(text)))), <<" ">>))

\* normalize_text (lines 6-23)
normalize_text(text) ==
    IF ~Truthy(text) THEN <<>>
    ELSE Join(DropCommon(Words(CollapseWs(Strip(Lower(text))))), <<" ">>)

SetMax(S) == CHOOSE x \in S : \A y \in S : x >= y

\* one row of the longest-common-subsequence table from the row above it
\* (index j + 1 holds column j): the best of leaving c unmatched and of
\* matching c with an equal character b[k], k <= j
LcsRow(prev, c, b) ==
    SubSeq([j \in 1..(Len(b) + 1) |->
               SetMax({prev[j]} \cup {prev[k] + 1 : k \in {k \in 1..(j - 1) : b[k] = c}})],
           1, Len(b) + 1)

RECURSIVE LcsRows(_, _, _, _)
\* the rows for a[i], a[i+1], ...; stops once all of b is matched
LcsRows(a, b, i, prev) ==
    IF i > Len(a) \/ prev[Len(b) + 1] = Len(b) THEN prev[Len(b) + 1]
    ELSE LcsRows(a, b, i + 1, LcsRow(prev, a[i], b))

\* length of the longest common subsequence of a and b
lcs_length(a, b) == LcsRows(a, b, 1, [j \in 1..(Len(b) + 1) |-> 0])

\* fuzz.ratio(a, b) / 100.0 (lines 34, 37) as an exact fraction <<num, den>>:
\* the normalized Indel similarity 2 * LCS / (len(a) + len(b)), 1 for two
\* empty strings
ratio(a, b) ==
    IF Len(a) + Len(b) = 0 THEN <<1, 1>>
    ELSE <<2 * lcs_length(a, b), Len(a) + Len(b)>>

\* comparisons of fractions with positive denominators
Geq(x, y) == x[1] * y[2] >= y[1] * x[2]
Gt(x, y) == x[1] * y[2] > y[1] * x[2]

\* mutant: the fields of the first track are compared as they are
calculate_track_similarity_raw_first(track1, track2) ==
    LET title_similarity == ratio(track1.title, normalize_text(track2.title))
        artist_similarity == ratio(track1.artist, normalize_text(track2.artist))
    IN  <<7 * title_similarity[1] * artist_similarity[2]
             + 3 * artist_similarity[1] * title_similarity[2],
          10 * title_similarity[2] * artist_similarity[2]>>

\* calculate_track_similarity (lines 25-42): 0.7 * title + 0.3 * artist,
\* kept as an exact fraction
calculate_track_similarity(track1, track2) ==
    LET title_similarity == ratio(normalize_text(track1.title), normalize_text(track2.title))
        artist_similarity == ratio(normalize_text(track1.artist), normalize_text(track2.artist))
    IN  <<7 * title_similarity[1] * artist_similarity[2]
             + 3 * artist_similarity[1] * title_similarity[2],
          10 * title_similarity[2] * artist_similarity[2]>>

\* Optional[Track]: None is the empty sequence, a track t is <<t>>
NoTrack == <<>>

sExtendedCap == <<"E","x","t","e","n","d","e","d">>
sNoClose == <<"N","o"," ","c","l","o","s","e"," ","m","a","t","c","h"," ","f","o","u","n","d">>

\* the track the candidates are compared with (lines 64-84)
match_track(tracklist_track) ==
    IF Truthy(tracklist_track.mix_name)
         /\ Contains(sExtendedLower, Lower(tracklist_track.mix_name))
    THEN LET base_title ==
                 IF Contains(<<"(">>, tracklist_track.title)
                      /\ Contains(sExtendedCap, tracklist_track.title)
                 THEN Strip(BeforeFirst(tracklist_track.title, "("))
                 ELSE tracklist_track.title
         IN  CopyTrack(tracklist_track, base_title, NoneStr)
    ELSE tracklist_track

RECURSIVE BestLoop(_, _, _, _, _)
\* the scan of lines 86-91, from candidate i on
BestLoop(mt, pool, i, best_match, best_confidence) ==
    IF i > Len(pool) THEN [best_match |-> best_match, best_confidence |-> best_confidence]
    ELSE LET confidence == calculate_track_similarity(mt, pool[i])
         IN  IF Gt(confidence, best_confidence)
             THEN BestLoop(mt, pool, i + 1, <<pool[i]>>, confidence)
             ELSE BestLoop(mt, pool, i + 1, best_match, best_confidence)

\* mutant: a confidence of exactly 0.95 is not yet exact
match_status_strict(best_confidence, minc) ==
    IF Gt(best_confidence, <<19, 20>>) THEN "exact"
    ELSE IF Geq(best_confidence, minc) THEN "fuzzy"
    ELSE "no_match"

\* the status of lines 93-99
match_status(best_confidence, minc) ==
    IF Geq(best_confidence, <<19, 20>>) THEN "exact"
    ELSE IF Geq(best_confidence, minc) THEN "fuzzy"
    ELSE "no_match"

\* mutant: the title and mix_name of the source track itself are overwritten
\* for scoring, so the result shows the stripped track
match_result_inplace(tracklist_track, pool, minc) ==
    LET best == BestLoop(match_track(tracklist_track), pool, 1, NoTrack, <<0, 1>>)
        status == match_status(best.best_confidence, minc)
    IN  [tracklist_track |-> match_track(tracklist_track),
         spotify_track |-> IF status = "no_match" THEN NoTrack ELSE best.best_match,
         confidence |-> best.best_confidence,
         status |-> status,
         reason |-> IF status = "no_match" THEN sNoClose ELSE <<>>]

\* mutant: the reason is filled in whatever the status
match_result_reason_always(tracklist_track, pool, minc) ==
    LET best == BestLoop(match_track(tracklist_track), pool, 1, NoTrack, <<0, 1>>)
        status == match_status(best.best_confidence, minc)
    IN  [tracklist_track |-> tracklist_track,
         spotify_track |-> IF status = "no_match" THEN NoTrack ELSE best.best_match,
         confidence |-> best.best_confidence,
         status |-> status,
         reason |-> sNoClose]

\* the MatchResult one iteration of the outer loop appends (lines 60-109)
match_result(tracklist_track, pool, minc) ==
    LET best == BestLoop(match_track(tracklist_track), pool, 1, NoTrack, <<0, 1>>)
        status == match_status(best.best_confidence, minc)
    IN  [tracklist_track |-> tracklist_track,
         spotify_track |-> IF status = "no_match" THEN NoTrack ELSE best.best_match,
         confidence |-> best.best_confidence,
         status |-> status,
         reason |-> IF status = "no_match" THEN sNoClose ELSE <<>>]

\* sample tracklist tracks and pool candidates
sEasy == <<"E","a","s","y">>
sMatZo == <<"M","a","t"," ","Z","o">>
sMatZoHyphen == <<"M","a","t","-","Z","o">>
sRootsDub == <<"R","o","o","t","s"," ","D","u","b">>
sSultanOnly == <<"S","u","l","t","a","n">>

sOpusExtLower == <<"O","p","u","s"," ","(","e","x","t","e","n","d","e","d"," ","m","i","x",")">>

tEasy == Src(sEasy, sMatZo, NoInt, NoneStr, NoneStr)
\* an Extended mix whose title holds the qualifier in lower case
tOpusLower == Src(sOpusExtLower, sPrydz, <<480>>, NoneStr, sExtendedMix)

MatchSources == {tOpus, tEasy, tRoots, tOpusLower}

iEasy == Item(sEasy, <<sMatZoHyphen>>, sEasy, 200000, <<"i","8">>, sDate)
iRootsDub == Item(sRootsDub, <<sAmeDixon>>, sRoots, 300000, <<"i","9">>, sDate)
i1973Sultan == Item(s1973, <<sSultanOnly>>, s1973, 475000, <<"i","0">>, sDate)

MatchPool ==
    {ItemToTrack(iOpus402), ItemToTrack(iEasy), ItemToTrack(iRootsDub),
     ItemToTrack(i1973Sultan)}

\* the values of min_confidence the model draws: 0.0, 0.8 (the default), 1.0
Confidences == {<<0, 1>>, <<4, 5>>, <<1, 1>>}

\* find_matches is called: matches = [] (line 57)
MatchInit ==
    /\ tracklist_tracks \in SeqsUpTo(MatchSources, MaxTracks)
    /\ spotify_tracks \in SeqsUpTo(MatchPool, MaxTracks)
    /\ min_confidence \in Confidences
    /\ mi = 1 /\ matches = <<>>
    /\ PureIdle /\ SearchIdle /\ SyncIdle

\* one iteration of the loop of line 59 (lines 60-111)
MatchTrack ==
    /\ mi \in 1..Len(tracklist_tracks)
    /\ matches' = Append(matches,
                         match_result(tracklist_tracks[mi], spotify_tracks, min_confidence))
    /\ mi' = mi + 1
    /\ UNCHANGED <<tracklist_tracks, spotify_tracks, min_confidence, pureVars, searchVars,
                   syncVars>>

MatchNext == MatchTrack

MatchSpec == MatchInit /\ [][MatchNext]_vars

-----------------------------------------------------------------------------
(* Claims about search_track (SearchSpec) *)

\* the list holds one Track per record, in order, each with the record's id and name
SameRecords(tracks, items) ==
    /\ Len(tracks) = Len(items)
    /\ \A i \in 1..Len(items) :
          tracks[i].external_id = items[i].id /\ tracks[i].title = items[i].name

\* C1: when the ISRC lookup of a track with an isrc returns at least one record,
\* search_track returns exactly those records and that lookup is the only catalog
\* call of the run.
C1_IsrcHitShortCircuits ==
    isrcRecords /= <<>> =>
        /\ pc = "done"
        /\ SameRecords(result, isrcRecords)
        /\ Len(calls) = 1
        /\ calls[1] = [strategy |-> "isrc", q |-> sIsrcPrefix \o input.isrc]

\* an ISRC lookup that returned two records, for a track with a duration
C1_Witness ==
    /\ Truthy(input.isrc) /\ IntTruthy(input.duration)
    /\ Len(isrcRecords) = 2
    /\ pc = "done" /\ Len(result) = 2

\* what a state of search_track keeps of a call's handling
Continuation(resp) ==
    AfterCall(pc, queries, qi, resp, track, enable_duration_filter)

\* C2: with an access token, search_track never raises, and at every call a
\* failure of any kind leaves search_track exactly where an empty answer to the
\* same call leaves it: same next query, same strategy, nothing returned.
C2_FailureIsEmpty ==
    /\ access_token => pc /= "raised"
    /\ pc \in StrategySet =>
          \A k \in FailureKinds :
              Continuation([kind |-> k, items |-> <<>>])
                  = Continuation([kind |-> "ok", items |-> <<>>])

\* a call has just failed with a network error and search_track, instead of
\* stopping, stands before the first query of a later strategy
C2_Witness ==
    /\ access_token
    /\ lastResp = "network_error"
    /\ Len(calls) >= 2
    /\ pc \in StrategySet
    /\ pc /= calls[Len(calls)].strategy

\* the strategy order the cascade is documented to follow
CascadeOrder ==
    <<"isrc", "fast_path", "enhanced", "per_artist", "base_retry", "trimmed_mix",
      "last_resort">>

OrderIndex(strategy) == CHOOSE k \in 1..Len(CascadeOrder) : CascadeOrder[k] = strategy

\* the queries of the calls of one strategy, in the order issued
QueriesIssued(strategy) ==
    LET own == SelectSeq(calls, LAMBDA c : c.strategy = strategy)
    IN  [i \in 1..Len(own) |-> own[i].q]

IsPrefix(a, b) == Len(a) <= Len(b) /\ SubSeq(b, 1, Len(a)) = a

\* C3: the calls of a run follow the strategy order; when a call of a strategy is
\* issued, every earlier strategy has issued all of its queries, in order, and no
\* later strategy has issued any; and the call whose candidates are returned is
\* the last call of the run.
C3_StrategyOrder ==
    /\ \A i, j \in 1..Len(calls) :
          i < j => OrderIndex(calls[i].strategy) <= OrderIndex(calls[j].strategy)
    /\ calls /= <<>> =>
          LET current == OrderIndex(calls[Len(calls)].strategy)
          IN  \A k \in 1..Len(CascadeOrder) :
                  IF k < current
                  THEN QueriesIssued(CascadeOrder[k])
                           = StrategyQueries(CascadeOrder[k], track)
                  ELSE IF k = current
                  THEN IsPrefix(QueriesIssued(CascadeOrder[k]),
                                StrategyQueries(CascadeOrder[k], track))
                  ELSE QueriesIssued(CascadeOrder[k]) = <<>>
    /\ retFrom /= 0 => pc = "done" /\ retFrom = Len(calls)
    /\ pc = "done" /\ retFrom = 0 =>
          \A k \in 1..Len(CascadeOrder) :
              QueriesIssued(CascadeOrder[k]) = StrategyQueries(CascadeOrder[k], track)

\* a run that went through all seven strategies and returned from the last one
C3_Witness ==
    /\ pc = "done" /\ retFrom = Len(calls) /\ retFrom /= 0
    /\ \A k \in 1..Len(CascadeOrder) : QueriesIssued(CascadeOrder[k]) /= <<>>

\* the calls that are text searches (every call but the ISRC lookup)
TextCalls == SelectSeq(calls, LAMBDA c : c.strategy /= "isrc")

\* the Query Builder's queries for the base track: Extended qualifier stripped
\* from the title, mix_name cleared
BaseTrackQueries ==
    build_enhanced_queries(
        CopyTrack(track, strip_extended_from_title(track.title), NoneStr))

\* the text searches begin with the base-track queries, and a hit on one of them
\* is returned whole
StartsWithBaseTrack ==
    /\ \A k \in 1..Len(TextCalls) :
          k <= Len(BaseTrackQueries) => TextCalls[k].q = BaseTrackQueries[k]
    /\ (retFrom /= 0 /\ Len(TextCalls) <= Len(BaseTrackQueries)
            /\ calls[retFrom].strategy /= "isrc")
          => SameRecords(result, lastItems)

\* C8 as stated: for every track whose mix_name contains "extended" the text
\* searches begin with the base-track queries and the first hit is returned whole.
C8_AsStated ==
    (pc /= "start" /\ ExtendedMix(track)) => StartsWithBaseTrack

\* C8 as amended: the same, for the tracks whose title holds an Extended
\* qualifier (stripping changes the title); for the others the fast path issues
\* no call.
C8_FastPath ==
    /\ (pc /= "start" /\ ExtendedMix(track)
            /\ strip_extended_from_title(track.title) /= track.title)
          => StartsWithBaseTrack
    /\ (pc /= "start" /\ ExtendedMix(track)
            /\ strip_extended_from_title(track.title) = track.title)
          => \A j \in 1..Len(calls) : calls[j].strategy /= "fast_path"

\* Scenario B: the fast path returns a 402-second candidate for a 480-second
\* Extended Mix, with the duration filter enabled
C8_Witness ==
    /\ pc = "done" /\ enable_duration_filter
    /\ ExtendedMix(track) /\ track.duration = <<480>>
    /\ calls[retFrom].strategy = "fast_path"
    /\ Len(result) = 1 /\ result[1].duration = <<402>>

-----------------------------------------------------------------------------
(* Claims about find_matches (MatchSpec) *)

\* find_matches has returned its list (line 113)
Returned == mi = Len(tracklist_tracks) + 1

\* C4: every MatchResult of find_matches has status no_match if and only if
\* its candidate track is null, whatever the pool and min_confidence.
C4_NoMatchIffNull ==
    \A i \in 1..Len(matches) :
        matches[i].status = "no_match" <=> matches[i].spotify_track = NoTrack

\* a result with no candidate track whose status is not no_match
C4_FuzzyWithoutCandidate ==
    \E i \in 1..Len(matches) :
        /\ matches[i].spotify_track = NoTrack
        /\ matches[i].status = "fuzzy"
        /\ min_confidence = <<0, 1>>

\* C5: the status of every result is exact when its confidence c >= 0.95, fuzzy
\* when min_confidence <= c < 0.95, and no_match otherwise.
C5_StatusThresholds ==
    \A i \in 1..Len(matches) :
        LET c == matches[i].confidence
            atLeast95 == 20 * c[1] >= 19 * c[2]
            atLeastMin == c[1] * min_confidence[2] >= min_confidence[1] * c[2]
        IN  /\ matches[i].status \in {"exact", "fuzzy", "no_match"}
            /\ matches[i].status = "exact" <=> atLeast95
            /\ matches[i].status = "fuzzy" <=> (atLeastMin /\ ~atLeast95)
            /\ matches[i].status = "no_match" <=> (~atLeastMin /\ ~atLeast95)

\* both boundaries in one run: a result with c = 0.95 exactly that is exact, and
\* a result with c = min_confidence = 0.8 that is fuzzy
C5_Witness ==
    /\ Returned
    /\ \E i \in 1..Len(matches) :
          /\ 20 * matches[i].confidence[1] = 19 * matches[i].confidence[2]
          /\ matches[i].status = "exact"
    /\ \E i \in 1..Len(matches) :
          /\ matches[i].confidence[1] * min_confidence[2]
                 = min_confidence[1] * matches[i].confidence[2]
          /\ min_confidence = <<4, 5>>
          /\ matches[i].status = "fuzzy"

\* no candidate of the pool reaches min_confidence for the source track
NoneReaches(tracklist_track) ==
    \A k \in 1..Len(spotify_tracks) :
        ~Geq(calculate_track_similarity(match_track(tracklist_track), spotify_tracks[k]),
             min_confidence)

\* one result per source track handled so far, in source order
OnePerSource ==
    /\ Len(matches) = mi - 1
    /\ Returned => Len(matches) = Len(tracklist_tracks)
    /\ \A i \in 1..Len(matches) : matches[i].tracklist_track = tracklist_tracks[i]

\* C6: find_matches returns one MatchResult per source track, in source order,
\* and a source track for which no pool candidate reaches min_confidence gets a
\* no_match result.
C6_OnePerSourceInOrder ==
    /\ OnePerSource
    /\ \A i \in 1..Len(matches) :
          NoneReaches(tracklist_tracks[i]) => matches[i].status = "no_match"

\* an empty pool and min_confidence 0.0: the result is there, but it is fuzzy
C6_EmptyPoolFuzzy ==
    /\ Returned /\ Len(spotify_tracks) = 0 /\ min_confidence = <<0, 1>>
    /\ Len(matches) = 2
    /\ \A i \in 1..Len(matches) : matches[i].status = "fuzzy"

-----------------------------------------------------------------------------
(* Claims about search_track, second part (SearchSpec, SearchFairSpec) *)

\* search_track has ended, by a return or by raising
Finished == pc \in {"done", "raised"}

\* C11, safety part: within every strategy the calls issued are the entries of
\* its generated list, each entry once and in order (no entry is retried); and
\* the empty list is returned only when no call held a candidate and every
\* strategy has issued its whole list.
C11_NoRetry ==
    /\ \A k \in 1..Len(CascadeOrder) :
          QueriesIssued(CascadeOrder[k]) /= <<>> =>
              IsPrefix(QueriesIssued(CascadeOrder[k]),
                       StrategyQueries(CascadeOrder[k], track))
    /\ (pc = "done" /\ Len(result) = 0) =>
          /\ hits = 0
          /\ \A k \in 1..Len(CascadeOrder) :
                QueriesIssued(CascadeOrder[k]) = StrategyQueries(CascadeOrder[k], track)

\* within one strategy no query string is sent twice
NoQueryTwice ==
    \A i, j \in 1..Len(calls) :
        (i < j /\ calls[i].strategy = calls[j].strategy) => calls[i].q /= calls[j].q

\* C11 as stated: search_track terminates, and each query is issued at most once
\* per strategy, and the empty list is returned only after every strategy is
\* exhausted.
C11_AsStated == [](C11_NoRetry /\ NoQueryTwice) /\ <>Finished

\* C11 as amended: search_track terminates; each entry of a strategy's generated
\* list is issued at most once (a list may hold the same string twice); the empty
\* list is returned only after every strategy is exhausted.
C11_Terminates == []C11_NoRetry /\ <>Finished

\* a run that ends with the empty list after more than ten calls, the last of
\* which failed
C11_Witness ==
    /\ pc = "done" /\ Len(result) = 0
    /\ Len(calls) > 10
    /\ lastResp \in FailureKinds

-----------------------------------------------------------------------------
(* Claims about the filters, second part (PureSpec) *)

\* the candidates of cands within 5 seconds of the source duration, in order
InRange(cands, src) == SelectSeq(cands, LAMBDA c : WithinTolerance(c, src))

\* C12: _filter_by_duration returns its input unchanged when the source
\* duration is null; when the source duration is set (any integer >= 0) and at
\* least one candidate lies within source-5 .. source+5, it returns exactly the
\* candidates within that inclusive range, in input order.
C12_FilterByDuration ==
    pOp = "filter_by_duration" =>
        /\ pSrc.duration = NoInt => pOut = pCands
        /\ (pSrc.duration /= NoInt /\ InRange(pCands, pSrc) /= <<>>)
               => pOut = InRange(pCands, pSrc)

\* a source duration of 0 seconds, one candidate within 0..5 and one far
\* outside: both are returned
C12_ZeroDurationUnfiltered ==
    /\ pOp = "filter_by_duration"
    /\ pSrc.duration = <<0>>
    /\ \E i \in 1..Len(pCands) : WithinTolerance(pCands[i], pSrc)
    /\ \E i \in 1..Len(pCands) : ~WithinTolerance(pCands[i], pSrc)
    /\ pOut = pCands

-----------------------------------------------------------------------------
(* sync.py: the search loop of sync_tracklist_practical and the call of
   find_matches *)

\* find_matches as a whole: one MatchResult per source track
find_matches(tracks, pool, mc) ==
    [i \in 1..Len(tracks) |-> match_result(tracks[i], pool, mc)]

\* mutant: the results of a track are put in front of the pool
extend_front(list, more) == more \o list

\* list.extend(more)
extend(list, more) == list \o more

\* the tracks of the sample tracklists
SyncSources == {t1973, tOpusMal}

\* the answers of the catalog during a run
SyncResponses ==
    {[kind |-> "network_error", items |-> <<>>],
     [kind |-> "ok", items |-> <<>>],
     [kind |-> "ok", items |-> <<iOpus402, i1973a>>]}

Event(e, i, arg) == [e |-> e, i |-> i, arg |-> arg]

\* the log with a catalog call for track i added; consecutive calls for the same
\* track are logged as one entry
LogCall(evs, i) ==
    IF Len(evs) > 0 /\ evs[Len(evs)] = Event("call", i, <<>>)
    THEN evs ELSE Append(evs, Event("call", i, <<>>))

SyncInit ==
    /\ tracklist_tracks \in SeqsUpTo(SyncSources, MaxTracks)
    /\ min_confidence = <<4, 5>>   \* the default of line 278, 0.8
    /\ access_token \in BOOLEAN
    /\ enable_duration_filter \in BOOLEAN
    /\ spc = "loop" /\ si = 1 /\ all_spotify_tracks = <<>> /\ events = <<>>
    /\ spotify_tracks = <<>> /\ mi = 0 /\ matches = <<>>
    /\ input = tStrobe /\ track = tStrobe /\ pc = "idle"
    /\ queries = <<>> /\ qi = 0 /\ calls = <<>> /\ lastResp = "none"
    /\ lastItems = <<>> /\ isrcRecords = <<>> /\ hits = 0
    /\ result = <<>> /\ retFrom = 0
    /\ PureIdle /\ PlayIdle

\* what the loop does once the running search_track has come to pc' and
\* result': nothing while it runs, the extend of the pool and the next iteration
\* when it returned, the end of the run when it raised
AfterSearch(evs) ==
    /\ spc' = (IF pc' = "done" THEN "loop"
               ELSE IF pc' = "raised" THEN "raised" ELSE "searching")
    /\ si' = (IF pc' = "done" THEN si + 1 ELSE si)
    /\ all_spotify_tracks' = (IF pc' = "done"
                              THEN extend(all_spotify_tracks, result')
                              ELSE all_spotify_tracks)
    /\ events' = (IF pc' = "done"
                  THEN Append(evs, Event("return", si, result'))
                  ELSE evs)

\* the next iteration calls search_track(track): a fresh activation
InvokeSearch ==
    /\ spc = "loop" /\ si <= Len(tracklist_tracks)
    /\ input' = tracklist_tracks[si] /\ track' = tracklist_tracks[si]
    /\ pc' = "start"
    /\ queries' = <<>> /\ qi' = 0 /\ calls' = <<>> /\ lastResp' = "none"
    /\ lastItems' = <<>> /\ isrcRecords' = <<>> /\ hits' = 0
    /\ result' = <<>> /\ retFrom' = 0
    /\ spc' = "searching"
    /\ events' = Append(events, Event("invoke", si, tracklist_tracks[si]))
    /\ UNCHANGED <<access_token, enable_duration_filter, si, all_spotify_tracks,
                   pureVars, matchVars, playVars>>

\* the running search_track up to its first catalog call
SyncEnter ==
    /\ spc = "searching"
    /\ EnterStep
    /\ AfterSearch(events)
    /\ UNCHANGED <<pureVars, matchVars, playVars>>

\* one catalog call of the running search_track
SyncCatalogCall ==
    /\ spc = "searching"
    /\ CatalogCallStep(SyncResponses)
    /\ AfterSearch(LogCall(events, si))
    /\ UNCHANGED <<pureVars, matchVars, playVars>>

\* the loop is over: the pool is passed to find_matches (line 321)
LoopEnd ==
    /\ spc = "loop" /\ si > Len(tracklist_tracks)
    /\ spc' = "done"
    /\ spotify_tracks' = all_spotify_tracks
    /\ matches' = find_matches(tracklist_tracks, all_spotify_tracks, min_confidence)
    /\ mi' = Len(tracklist_tracks) + 1
    /\ events' = Append(events, Event("find_matches", 0, all_spotify_tracks))
    /\ UNCHANGED <<tracklist_tracks, min_confidence, si, all_spotify_tracks,
                   pureVars, searchVars, playVars>>

SyncNext ==
    \/ InvokeSearch
    \/ SyncEnter
    \/ SyncCatalogCall
    \/ LoopEnd

SyncSpec == SyncInit /\ [][SyncNext]_vars

-----------------------------------------------------------------------------
(* Claims about the search loop (SyncSpec) *)

\* the events of kind e, in the order they happened
EventsOf(e) == SelectSeq(events, LAMBDA ev : ev.e = e)

RECURSIVE Flatten(_)
Flatten(ss) == IF ss = <<>> THEN <<>> ELSE Head(ss) \o Flatten(Tail(ss))

\* the per-track results returned so far, in the order of the returns
ResultsSoFar == [k \in 1..Len(EventsOf("return")) |-> EventsOf("return")[k].arg]

\* the loop has ended without an exception
LoopOver == spc = "done" \/ (spc = "loop" /\ si > Len(tracklist_tracks))

\* C13: in a sync run search_track is invoked exactly once per source track, in
\* tracklist order; every catalog call made for track i completes before the
\* first catalog call for track i+1; and the candidate pool passed to
\* find_matches is the concatenation of the per-track results in that order.
C13_OneSearchPerTrackInOrder ==
    /\ LET inv == EventsOf("invoke")
       IN  /\ Len(inv) <= Len(tracklist_tracks)
           /\ \A k \in 1..Len(inv) : inv[k].i = k /\ inv[k].arg = tracklist_tracks[k]
           /\ LoopOver => Len(inv) = Len(tracklist_tracks)
    /\ \A j, k \in 1..Len(events) :
          (j < k /\ events[k].e = "call") =>
              /\ events[j].i <= events[k].i
              /\ events[j].e = "return" => events[j].i < events[k].i
    /\ \A k \in 1..Len(events) :
          events[k].e = "call" =>
              \E j \in 1..(k - 1) : events[j] = Event("invoke", events[k].i,
                                                      tracklist_tracks[events[k].i])
    /\ all_spotify_tracks = Flatten(ResultsSoFar)
    /\ \A k \in 1..Len(events) :
          events[k].e = "find_matches" =>
              /\ k = Len(events)
              /\ events[k].arg = Flatten(ResultsSoFar)
              /\ spotify_tracks = events[k].arg
              /\ Len(ResultsSoFar) = Len(tracklist_tracks)

\* a run over two tracks, with catalog calls for both and candidates for both,
\* that has reached find_matches
C13_Witness ==
    /\ spc = "done" /\ Len(tracklist_tracks) = 2
    /\ \A i \in 1..2 : \E k \in 1..Len(events) : events[k] = Event("call", i, <<>>)
    /\ Len(ResultsSoFar) = 2
    /\ Len(ResultsSoFar[1]) > 0 /\ Len(ResultsSoFar[2]) > 0
    /\ ResultsSoFar[1] /= ResultsSoFar[2]
    /\ Len(matches) = 2

\* the tracks of the list are as they were when they were passed to search_track,
\* the running search_track holds the track it was passed, and every MatchResult
\* shows the source track as it is in the list
InputsAsPassed ==
    /\ \A k \in 1..Len(EventsOf("invoke")) :
          EventsOf("invoke")[k].arg = tracklist_tracks[k]
    /\ spc = "searching" => input = tracklist_tracks[si]
    /\ \A i \in 1..Len(matches) : matches[i].tracklist_track = tracklist_tracks[i]

\* no step changes a track of the list, and the track held by search_track
\* changes only when search_track is called anew
InputsKept ==
    /\ tracklist_tracks' = tracklist_tracks
    /\ input' /= input => pc' = "start"

\* C14: search_track and find_matches never modify any field of a Track passed
\* to them: the derived variants (normalized title, base track, scoring copy)
\* are other values, and each input track has the same field values after the
\* call as before it.
C14_InputsUnmodified == []InputsAsPassed /\ [][InputsKept]_vars

\* a finished run whose last search_track worked on a copy with a normalized
\* title, and whose find_matches scored a stripped copy of a source track
C14_Witness ==
    /\ spc = "done" /\ Len(matches) = 2
    /\ pc = "done" /\ track /= input /\ Len(calls) > 0
    /\ input = tracklist_tracks[2]
    /\ match_track(tracklist_tracks[2]) /= tracklist_tracks[2]
    /\ matches[2].status /= "no_match"

-----------------------------------------------------------------------------
(* Claims about find_matches and the similarity, second part (MatchSpec) *)

\* C15: in every MatchResult returned by find_matches, reason is the string
\* "No close match found" when status is no_match and the empty string when
\* status is exact or fuzzy.
C15_ReasonOnlyForNoMatch ==
    \A i \in 1..Len(matches) :
        /\ matches[i].status = "no_match" => matches[i].reason = sNoClose
        /\ matches[i].status \in {"exact", "fuzzy"} => matches[i].reason = <<>>

\* a returned list with a no_match result carrying the reason and a matched
\* result with an empty reason
C15_Witness ==
    /\ Returned
    /\ \E i \in 1..Len(matches) :
          matches[i].status = "no_match" /\ matches[i].reason = sNoClose
    /\ \E i \in 1..Len(matches) :
          matches[i].status \in {"exact", "fuzzy"} /\ Len(matches[i].reason) = 0

-----------------------------------------------------------------------------
(* TextSpec: normalize_text applied to drawn strings, and to its own result *)

\* the characters of the drawn strings: a stop word, its capital, a letter that
\* makes another stop word with it, a letter of no stop word, two kinds of
\* whitespace
TextChars == {"a", "A", "n", "x", " ", "\t"}

TextInit ==
    /\ pText \in SeqsUpTo(TextChars, MaxText) \cup {NoneStr}
    /\ pOp = "none" /\ pSrc = tStrobe /\ pItems = <<>> /\ pCands = <<>>
    /\ pOut = <<>> /\ pOut2 = <<>>
    /\ SearchIdle /\ MatchIdle /\ SyncIdle

ApplyNormalizeText ==
    /\ pOp = "none"
    /\ pOp' = "normalize_text"
    /\ pOut' = normalize_text(pText)
    /\ UNCHANGED <<pSrc, pItems, pCands, pOut2, pText, searchVars, matchVars, syncVars>>

\* normalize_text applied to the string it returned
ApplyNormalizeTextAgain ==
    /\ pOp = "normalize_text"
    /\ pOp' = "normalize_text_twice"
    /\ pOut2' = normalize_text(pOut)
    /\ UNCHANGED <<pSrc, pItems, pCands, pOut, pText, searchVars, matchVars, syncVars>>

TextNext ==
    \/ ApplyNormalizeText
    \/ ApplyNormalizeTextAgain

TextSpec == TextInit /\ [][TextNext]_vars

\* C16: normalize_text is idempotent: for every string x (the empty string,
\* strings of whitespace only and strings made only of stop words included),
\* normalize_text(normalize_text(x)) equals normalize_text(x).
C16_NormalizeIdempotent ==
    pOp = "normalize_text_twice" => pOut2 = pOut

\* a string with a capitalised stop word, surplus whitespace and another word:
\* the first pass changes it, the second does not
C16_Witness ==
    /\ pOp = "normalize_text_twice"
    /\ \E i \in 1..Len(pText) : pText[i] = "A"
    /\ \E i \in 1..Len(pText) : pText[i] = "\t"
    /\ Len(pOut) > 0 /\ Len(pOut) < Len(pText)
    /\ pOut2 = pOut

-----------------------------------------------------------------------------
(* SimSpec: calculate_track_similarity applied to drawn pairs, both ways *)

SimTracks == SourceTracks \cup MatchPool \cup {tEasy}

SimInit ==
    /\ pSrc \in SimTracks
    /\ pCands \in {<<t>> : t \in SimTracks}
    /\ pOp = "none" /\ pItems = <<>> /\ pText = <<>>
    /\ pOut = <<>> /\ pOut2 = <<>>
    /\ SearchIdle /\ MatchIdle /\ SyncIdle

\* score(A, B) and score(B, A)
ApplySimilarity ==
    /\ pOp = "none"
    /\ pOp' = "similarity"
    /\ pOut' = calculate_track_similarity(pSrc, pCands[1])
    /\ pOut2' = calculate_track_similarity(pCands[1], pSrc)
    /\ UNCHANGED <<pSrc, pItems, pCands, pText, searchVars, matchVars, syncVars>>

SimNext == ApplySimilarity

SimSpec == SimInit /\ [][SimNext]_vars

\* equality of two fractions
SameFraction(x, y) == x[1] * y[2] = y[1] * x[2]

\* C17: calculate_track_similarity is symmetric, score(A, B) = score(B, A), the
\* score being 0.7 times the title ratio plus 0.3 times the artist ratio of the
\* normalized fields.
C17_SimilaritySymmetric ==
    pOp = "similarity" =>
        LET a == pSrc
            b == pCands[1]
            tr == ratio(normalize_text(a.title), normalize_text(b.title))
            ar == ratio(normalize_text(a.artist), normalize_text(b.artist))
        IN  /\ SameFraction(pOut, pOut2)
            /\ SameFraction(pOut, <<7 * tr[1] * ar[2] + 3 * ar[1] * tr[2],
                                    10 * tr[2] * ar[2]>>)

\* two different tracks whose fields change under normalization and whose score
\* lies strictly between 0 and 1
C17_Witness ==
    /\ pOp = "similarity"
    /\ pSrc /= pCands[1]
    /\ normalize_text(pSrc.title) /= pSrc.title
    /\ Len(pSrc.title) /= Len(pCands[1].title)
    /\ pOut[1] > 0 /\ pOut[1] < pOut[2]
    /\ SameFraction(pOut, pOut2)

-----------------------------------------------------------------------------
(* Claims about the enhanced-query strategy (SearchSpec) *)

\* the last call was an enhanced query and its answer held candidates
EnhancedHit ==
    /\ Len(calls) > 0
    /\ calls[Len(calls)].strategy = "enhanced"
    /\ lastResp = "ok"

\* the candidates of the last answer
Found == ConvertItems(lastItems)

\* those of them with the source's title core and one of its artists
PreferredFound == SelectSeq(Found, LAMBDA c : IsPreferred(c, track))

\* C18: in the enhanced-query strategy, for a query that returns candidates: if
\* the identity-preference subset is non-empty, exactly that subset is returned;
\* otherwise the duration-filtered set is returned, except that when mix_name
\* contains "extended" or the duration filter is disabled the unfiltered
\* candidates of that query are returned.
C18_EnhancedAcceptance ==
    EnhancedHit =>
        /\ pc = "done" /\ retFrom = Len(calls)
        /\ PreferredFound /= <<>> => result = PreferredFound
        /\ PreferredFound = <<>> =>
              result = (IF ExtendedMix(track) \/ ~enable_duration_filter
                        THEN Found
                        ELSE filter_by_duration(Found, track))

\* an enhanced query whose two candidates hold no preferred one, for a track
\* that is no Extended mix, with the filter enabled: one candidate is returned
C18_Witness ==
    /\ EnhancedHit
    /\ Len(PreferredFound) = 0
    /\ ~ExtendedMix(track) /\ enable_duration_filter
    /\ Len(Found) = 2 /\ Len(result) = 1
    /\ WithinTolerance(result[1], track)

\* C19: in the enhanced-query strategy the first query that returns at least one
\* candidate always ends the cascade: duration filtering never causes a
\* non-empty result set to be skipped, so later enhanced queries and every
\* fallback strategy are reached only when each earlier call returned zero
\* candidates or failed.
C19_FirstHitEndsCascade ==
    /\ EnhancedHit => (pc = "done" /\ Len(result) > 0 /\ retFrom = Len(calls))
    /\ hits <= 1
    /\ hits = 1 => (pc = "done" /\ lastResp = "ok" /\ retFrom = Len(calls))
    /\ pc \in StrategySet => hits = 0

\* an enhanced query, issued after earlier calls that gave nothing, whose
\* candidates are all outside the tolerance of a filtering track: they are
\* returned all the same
C19_Witness ==
    /\ EnhancedHit /\ hits = 1 /\ Len(calls) >= 2
    /\ ~ExtendedMix(track) /\ enable_duration_filter /\ IntTruthy(track.duration)
    /\ Len(PreferredFound) = 0
    /\ \A i \in 1..Len(Found) : ~WithinTolerance(Found[i], track)
    /\ pc = "done" /\ result = Found

-----------------------------------------------------------------------------
(* Claims about the scoring copy of find_matches (MatchSpec) *)

\* the title without its Extended qualifier: the first parenthesised group whose
\* text holds "extended" in any letter case is taken out, nothing else
WithoutExtendedQualifier(title) ==
    LET IsGroup(i, j) ==
            /\ i < j /\ title[i] = "(" /\ title[j] = ")"
            /\ \A k \in (i + 1)..(j - 1) : title[k] \notin {"(", ")"}
            /\ Contains(sExtendedLower, Lower(SubSeq(title, i, j)))
        Starts == {i \in 1..Len(title) : \E j \in 1..Len(title) : IsGroup(i, j)}
    IN  IF Starts = {} THEN title
        ELSE LET i == CHOOSE x \in Starts : \A y \in Starts : x <= y
                 j == CHOOSE y \in 1..Len(title) : IsGroup(i, y)
             IN  Strip(CollapseWs(SubSeq(title, 1, i - 1)
                                    \o SubSeq(title, j + 1, Len(title))))

\* the copy C20 says the candidates are scored against
ScoringCopy(src) == CopyTrack(src, WithoutExtendedQualifier(src.title), NoneStr)

\* c is the best score of the pool against track t (0 for no candidate above 0)
BestScoreAgainst(c, t) ==
    /\ \A k \in 1..Len(spotify_tracks) :
          Geq(c, calculate_track_similarity(t, spotify_tracks[k]))
    /\ \/ c[1] = 0
       \/ \E k \in 1..Len(spotify_tracks) :
             c[1] * calculate_track_similarity(t, spotify_tracks[k])[2]
                 = calculate_track_similarity(t, spotify_tracks[k])[1] * c[2]

\* C20: for a source track whose mix_name case-insensitively contains
\* "extended", find_matches scores every candidate against a copy of the track
\* with the Extended qualifier removed from the title (whatever the letter case
\* of the qualifier in the title, and removing only that qualifier), while the
\* tracklist_track of the returned MatchResult is the original source track.
C20_ScoredAgainstStrippedCopy ==
    \A i \in 1..Len(matches) :
        ExtendedMix(tracklist_tracks[i]) =>
            /\ matches[i].tracklist_track = tracklist_tracks[i]
            /\ BestScoreAgainst(matches[i].confidence, ScoringCopy(tracklist_tracks[i]))

\* the title "Opus (extended mix)" with mix_name "Extended Mix" and a pool
\* holding "Opus" by the same artist: the candidate is scored against the
\* unstripped title and the result is no_match at min_confidence 0.8
C20_LowercaseQualifierKept ==
    /\ Returned /\ min_confidence = <<4, 5>>
    /\ \E i \in 1..Len(matches) :
          /\ tracklist_tracks[i] = tOpusLower
          /\ \E k \in 1..Len(spotify_tracks) :
                /\ spotify_tracks[k].title = sOpus
                /\ SameFraction(calculate_track_similarity(ScoringCopy(tOpusLower),
                                                           spotify_tracks[k]),
                                <<1, 1>>)
          /\ matches[i].status = "no_match"
          /\ BestScoreAgainst(matches[i].confidence, tracklist_tracks[i])

-----------------------------------------------------------------------------
(* Claims about the query builder, second part (PureSpec) *)

\* q is one of the queries returned
InOutput(q) == \E k \in 1..Len(pOut) : pOut[k] = q

\* position of query q in the list returned (0 when it is not there)
PositionOf(q) ==
    IF InOutput(q) THEN CHOOSE k \in 1..Len(pOut) : pOut[k] = q ELSE 0

\* the quoted artist term
ArtistTerm(t) == sArtistOpen \o t.artist \o Quote

\* the title+mix query with the exact year, and with the year-1..year+1 window
YearQuery(t) ==
    build_title(t, TRUE) \o ArtistTerm(t) \o sYear \o IntToStr(t.year[1])
YearWindowQuery(t) ==
    build_title(t, TRUE) \o ArtistTerm(t) \o sYear \o IntToStr(t.year[1] - 1)
        \o <<"-">> \o IntToStr(t.year[1] + 1)

\* C21: the two year-constrained title+mix queries (exact year, and the year-1
\* to year+1 window) appear in the output of _build_enhanced_queries if and only
\* if the track's year is present and its mix_name is not "Original Mix".
C21_YearQueriesIffYearAndMix ==
    pOp = "build_queries" =>
        /\ (pSrc.year /= NoInt /\ pSrc.mix_name /= sOriginalMix)
              => (InOutput(YearQuery(pSrc)) /\ InOutput(YearWindowQuery(pSrc)))
        /\ (pSrc.year /= NoInt /\ pSrc.mix_name = sOriginalMix)
              => (~InOutput(YearQuery(pSrc)) /\ ~InOutput(YearWindowQuery(pSrc)))
        /\ pSrc.year = NoInt
              => \A k \in 1..Len(pOut) : ~Contains(sYear, pOut[k])

\* an Original Mix of 2016: both year-constrained queries are the first two of
\* the output
C21_OriginalMixYearQueries ==
    /\ pOp = "build_queries"
    /\ pSrc.mix_name = sOriginalMix /\ pSrc.year = <<2016>>
    /\ Len(pOut) >= 2
    /\ pOut[1] = YearQuery(pSrc) /\ pOut[2] = YearWindowQuery(pSrc)

\* the track has a mix name other than "Original Mix" that its title does not
\* hold yet
MixToAppend(t) == HasMix(t) /\ ~MixInTitle(t)

\* C22: for a track with a mix_name other than "Original Mix" that is not
\* already contained in the title, the output of _build_enhanced_queries contains
\* a query made of the quoted title+mix and the quoted artist with no year
\* constraint, placed before the unquoted title + artist query.
C22_TitleMixArtistQuery ==
    (pOp = "build_queries" /\ MixToAppend(pSrc)) =>
        LET q == build_title(pSrc, TRUE) \o ArtistTerm(pSrc)
            plain == pSrc.title \o <<" ">> \o pSrc.artist
        IN  /\ InOutput(q)
            /\ InOutput(plain)
            /\ PositionOf(q) < PositionOf(plain)

\* a remix whose name is not in the title: the only quoted-artist query without
\* a year, album or label is built from the plain title
C22_PlainTitleOnly ==
    /\ pOp = "build_queries" /\ MixToAppend(pSrc)
    /\ ~InOutput(build_title(pSrc, TRUE) \o ArtistTerm(pSrc))
    /\ InOutput(build_title(pSrc, FALSE) \o ArtistTerm(pSrc))
    /\ InOutput(build_title(pSrc, TRUE))

-----------------------------------------------------------------------------
(* Claims about the scan of find_matches (MatchSpec) *)

\* the score of pool candidate k against the track source track i is scored as
ScoreOf(i, k) ==
    calculate_track_similarity(match_track(tracklist_tracks[i]), spotify_tracks[k])

\* the first pool position whose score no other position exceeds
FirstBest(i) ==
    CHOOSE k \in 1..Len(spotify_tracks) :
        /\ \A j \in 1..Len(spotify_tracks) : Geq(ScoreOf(i, k), ScoreOf(i, j))
        /\ \A j \in 1..(k - 1) : Gt(ScoreOf(i, k), ScoreOf(i, j))

\* the candidate find_matches has selected for source track i
Selected(i) ==
    BestLoop(match_track(tracklist_tracks[i]), spotify_tracks, 1, NoTrack,
             <<0, 1>>).best_match

\* C23: when several candidates in the pool share the maximum score for a
\* source track, find_matches selects the one that occurs first in the
\* candidate pool.
C23_FirstOfTiedSelected ==
    \A i \in 1..Len(matches) :
        (Len(spotify_tracks) > 0 /\ matches[i].status /= "no_match")
            => matches[i].spotify_track = <<spotify_tracks[FirstBest(i)]>>

\* two candidates that both score 0.0 for "Opus (Extended Mix)": none is
\* selected, and at min_confidence 0.0 the result is fuzzy without a candidate
C23_ZeroTieNoneSelected ==
    /\ Returned /\ min_confidence = <<0, 1>>
    /\ Len(spotify_tracks) = 2
    /\ \E i \in 1..Len(matches) :
          /\ tracklist_tracks[i] = tOpus
          /\ ScoreOf(i, 1)[1] = 0 /\ ScoreOf(i, 2)[1] = 0
          /\ Len(Selected(i)) = 0
          /\ matches[i].status = "fuzzy" /\ Len(matches[i].spotify_track) = 0

-----------------------------------------------------------------------------
(* Claims about the per-artist fallback (SearchSpec) *)

\* the individual names of an artist string, in order: its pieces between ","
\* and "&", trimmed, the empty ones dropped
NamesInOrder(artist) ==
    LET parts == SplitOn(artist, {",", "&"})
    IN  SelectSeq([i \in 1..Len(parts) |-> Strip(parts[i])], LAMBDA n : n /= <<>>)

\* for each name in order: the quoted title with that artist, then, when there
\* is a mix name other than "Original Mix", the title with mix with that artist
RECURSIVE ExpectedPerArtist(_, _)
ExpectedPerArtist(names, t) ==
    IF names = <<>> THEN <<>>
    ELSE <<Quote \o t.title \o Quote \o sArtistOpen \o Head(names) \o Quote>>
         \o (IF HasMix(t)
             THEN <<build_title(t, TRUE) \o sArtistOpen \o Head(names) \o Quote>>
             ELSE <<>>)
         \o ExpectedPerArtist(Tail(names), t)

\* the last call was a per-artist query and its answer held candidates
PerArtistHit ==
    /\ Len(calls) > 0
    /\ calls[Len(calls)].strategy = "per_artist"
    /\ lastResp = "ok"

\* C24: the per-artist fallback splits the artist string on "," and "&" only
\* (never on "+"), and for each individual name in order issues the quoted-title
\* + that-artist query followed, when a mix name other than "Original Mix"
\* exists, by the title-with-mix + that-artist query; it returns the complete,
\* unfiltered result of the first of these queries that yields candidates.
C24_PerArtistFallback ==
    /\ QueriesIssued("per_artist") /= <<>> =>
          /\ IsPrefix(QueriesIssued("per_artist"),
                      ExpectedPerArtist(NamesInOrder(track.artist), track))
          /\ \A k \in 1..Len(NamesInOrder(track.artist)) :
                /\ ~Contains(<<",">>, NamesInOrder(track.artist)[k])
                /\ ~Contains(<<"&">>, NamesInOrder(track.artist)[k])
          /\ Contains(<<"+">>, track.artist) =>
                \E k \in 1..Len(NamesInOrder(track.artist)) :
                    Contains(<<"+">>, NamesInOrder(track.artist)[k])
    /\ PerArtistHit =>
          /\ pc = "done" /\ retFrom = Len(calls)
          /\ SameRecords(result, lastItems)
          /\ hits = 1

\* the track by "Sultan + Shepard, Colyn", 480 seconds, filter enabled: the
\* query for the second name, "Colyn", returns two candidates of which one is
\* far from 480 seconds, and both are returned
C24_Witness ==
    /\ PerArtistHit /\ enable_duration_filter
    /\ track.artist = sSultanColyn /\ IntTruthy(track.duration)
    /\ Len(QueriesIssued("per_artist")) = 2
    /\ calls[Len(calls) - 1].q = Quote \o track.title \o Quote \o sArtistOpen
                                     \o sSultan \o Quote
    /\ calls[Len(calls)].q = Quote \o track.title \o Quote \o sArtistOpen
                                 \o sColyn \o Quote
    /\ Len(result) = 2
    /\ \E i \in 1..2 : ~WithinTolerance(result[i], track)

-----------------------------------------------------------------------------
(* MixSpec: _strip_length_qualifiers applied to drawn mix names, and the
   trimmed-mix retry of search_track built from its result *)

\* the words of the drawn mix names: qualifiers in lower, Title and UPPER case,
\* "Mix" and "Remix", and a remixer's name
MixWords ==
    {<<"e","x","t","e","n","d","e","d">>, <<"E","x","t","e","n","d","e","d">>,
     <<"E","X","T","E","N","D","E","D">>,
     <<"c","l","u","b">>, <<"C","l","u","b">>, <<"C","L","U","B">>,
     <<"d","u","b">>, <<"V","I","P">>, <<"E","d","i","t">>,
     <<"M","i","x">>, <<"M","I","X">>, <<"m","i","x">>,
     sRemix, <<"R","E","M","I","X">>, sDixon}

MixInit ==
    /\ pText \in {Join(ws, <<" ">>) : ws \in SeqsUpTo(MixWords, MaxWords)}
    /\ pOp = "none" /\ pSrc = t1973 /\ pItems = <<>> /\ pCands = <<>>
    /\ pOut = <<>> /\ pOut2 = <<>>
    /\ SearchIdle /\ MatchIdle /\ SyncIdle

\* the trimmed name, and the query list of the retry for track pSrc with that
\* mix name (empty when the retry is not attempted)
ApplyStripLengthQualifiers ==
    /\ pOp = "none"
    /\ pOp' = "strip_length_qualifiers"
    /\ pOut' = strip_length_qualifiers(pText)
    /\ pOut2' = trimmed_mix_queries(CopyTrack(pSrc, pSrc.title, pText))
    /\ UNCHANGED <<pSrc, pItems, pCands, pText, searchVars, matchVars, syncVars>>

MixNext == ApplyStripLengthQualifiers

MixSpec == MixInit /\ [][MixNext]_vars

\* C25: _strip_length_qualifiers removes every occurrence of the qualifiers
\* extended, edit, club, club mix, radio, radio edit, dub, vip, version from a
\* mix name regardless of letter case (lower, Title or UPPER), and its result
\* contains the word "Remix" whenever the original mix name contained it; the
\* qualifier-trimmed retry is attempted exactly when the trimmed name differs
\* from the original.
C25_QualifiersStripped ==
    pOp = "strip_length_qualifiers" =>
        /\ \A k \in 1..Len(tokens) : ~Contains(tokens[k], Lower(pOut))
        /\ Contains(sRemix, pText) => Contains(sRemix, pOut)
        /\ (Len(pOut2) > 0) <=> (pOut /= pText)

\* the mix name "CLUB MIX": it is returned as it is and the retry is not
\* attempted
C25_UppercaseKept ==
    /\ pOp = "strip_length_qualifiers"
    /\ pText = <<"C","L","U","B"," ","M","I","X">>
    /\ pOut = pText
    /\ Len(pOut2) = 0

-----------------------------------------------------------------------------
(* sync.py lines 345-412 and web_app.py lines 526-563: what the sync does with
   the matches (PlaylistSpec); SpotifyProvider.add_tracks_to_playlist on its
   own (AddSpec) *)

\* the longest id list AddSpec passes to add_tracks_to_playlist
MaxIds == 201

\* batch_size of add_tracks_to_playlist (line 658)
batch_size == 100

sTargetName == <<"S","e","t">>
sOtherName == <<"M","i","x","e","s">>
sP1 == <<"p","1">>
sP2 == <<"p","2">>
sNew == <<"p","9">>
sOld == <<"o","l","d">>

\* the Playlist objects get_user_playlists builds (name and external_id are the
\* fields the sync reads)
Playlist(name, external_id) == [name |-> name, external_id |-> external_id]

\* Optional[Playlist]: None is the empty sequence
NoPlaylist == <<>>

\* playlist_name (sync.py line 356, web_app.py the request field)
playlist_name == sTargetName

\* what get_user_playlists can return; a failed request returns the empty list
ListResponses ==
    {<<>>,
     <<Playlist(sOtherName, sP2)>>,
     <<Playlist(sTargetName, sP1)>>,
     <<Playlist(sOtherName, sP2), Playlist(sTargetName, sP1)>>,
     <<Playlist(sTargetName, sP1), Playlist(sTargetName, sP2)>>}

\* what an existing playlist can hold before the run
OldContents == {<<>>, <<sOld>>}

\* how the two requests of clear_playlist_tracks / create_playlist can end
Outcomes == {"ok", "first_failed", "second_failed"}

\* mutant: the listing is not looked at
find_existing_never(playlists, name) == NoPlaylist

RECURSIVE FirstNamed(_, _, _)
FirstNamed(playlists, name, i) ==
    IF i > Len(playlists) THEN NoPlaylist
    ELSE IF playlists[i].name = name THEN <<playlists[i]>>
    ELSE FirstNamed(playlists, name, i + 1)

\* the loop of sync.py lines 360-363: the first playlist with the name
find_existing(playlists, name) == FirstNamed(playlists, name, 1)

exact_matches(ms) == SelectSeq(ms, LAMBDA m : m.status = "exact")
fuzzy_matches(ms) == SelectSeq(ms, LAMBDA m : m.status = "fuzzy")

\* mutant: a dry run goes on like any other run
early_return_no_dry(v, dry, ms) ==
    IF Len(exact_matches(ms)) = 0 /\ Len(fuzzy_matches(ms)) = 0
    THEN (IF v = "sync_tracklist_practical" THEN "False" ELSE "400")
    ELSE "none"

\* sync.py lines 345-352 (web_app.py lines 526-527, which has no dry run): the
\* value returned before any playlist call, "none" when the run goes on
early_return(v, dry, ms) ==
    IF v = "sync_tracklist_practical" /\ dry THEN "True"
    ELSE IF Len(exact_matches(ms)) = 0 /\ Len(fuzzy_matches(ms)) = 0
    THEN (IF v = "sync_tracklist_practical" THEN "False" ELSE "400")
    ELSE "none"

\* SpotifyProvider.clear_playlist_tracks: the GET of the tracks, then the DELETE
\* (one request for at most 100 tracks)
clear_playlist_tracks(contents, outcome) ==
    IF outcome = "first_failed" THEN [ok |-> FALSE, contents |-> contents]
    ELSE IF Len(contents) = 0 THEN [ok |-> TRUE, contents |-> contents]
    ELSE IF outcome = "second_failed" THEN [ok |-> FALSE, contents |-> contents]
    ELSE [ok |-> TRUE, contents |-> <<>>]

\* SpotifyProvider.create_playlist: the GET of the user id, then the POST
create_playlist(outcome) == IF outcome = "ok" THEN sNew ELSE NoneStr

RECURSIVE ids_of(_)
\* the loops of sync.py lines 387-389 and 392-394
ids_of(ms) ==
    IF Len(ms) = 0 THEN <<>>
    ELSE (IF Len(Head(ms).spotify_track) > 0
             /\ Truthy(Head(ms).spotify_track[1].external_id)
          THEN <<Head(ms).spotify_track[1].external_id>> ELSE <<>>)
         \o ids_of(Tail(ms))

\* track_ids of sync.py lines 384-394 (web_app.py lines 554-557)
collect_track_ids(ms) == ids_of(exact_matches(ms)) \o ids_of(fuzzy_matches(ms))

Min(a, b) == IF a < b THEN a ELSE b

\* mutant: the slice ends one element early
batch_of_short(ids, i) == SubSeq(ids, i + 1, Min(i + batch_size - 1, Len(ids)))

\* track_ids[i:i + batch_size] (line 660)
batch_of(ids, i) == SubSeq(ids, i + 1, Min(i + batch_size, Len(ids)))

\* an entry of plog
Call(op, id, arg, res) == [op |-> op, id |-> id, arg |-> arg, res |-> res]

\* the value the sync returns after add_tracks_to_playlist returned s (sync.py
\* lines 397-412; web_app.py lines 559-568)
return_after_add(v, s) ==
    IF v = "sync_tracklist_practical" THEN "True"
    ELSE IF s = "False" THEN "500" ELSE "200"

\* the source tracks and the candidate pools of the sample runs: tOpus scores
\* 1.0 against iOpus402 (exact), tRoots 0.8 against iRootsDub (fuzzy),
\* tOpusLower 0.54 against iOpus402, and nothing scores above 0.0 against
\* i1973Sultan
PlaySources == {tOpus, tRoots, tOpusLower}
PlayPools ==
    {<<>>,
     <<ItemToTrack(i1973Sultan)>>,
     <<ItemToTrack(iOpus402), ItemToTrack(iRootsDub)>>}

\* the run has reached sync.py line 345 (web_app.py line 526): the search loop
\* is over, find_matches has returned
PlaylistInit ==
    /\ tracklist_tracks \in SeqsUpTo(PlaySources, MaxTracks)
    /\ spotify_tracks \in PlayPools
    /\ min_confidence \in {<<0, 1>>, <<4, 5>>}
    /\ matches = find_matches(tracklist_tracks, spotify_tracks, min_confidence)
    /\ mi = Len(tracklist_tracks) + 1
    /\ via \in {"sync_tracklist_practical", "sync"}
    /\ dry_run \in (IF via = "sync" THEN {FALSE} ELSE BOOLEAN)
    /\ ppc = "start"
    /\ existing_playlist = NoPlaylist /\ playlist_id = NoneStr /\ track_ids = <<>>
    /\ ai = 0 /\ success = "none" /\ plog = <<>> /\ remote = <<>> /\ ret = "none"
    /\ access_token = TRUE /\ enable_duration_filter = FALSE
    /\ input = tStrobe /\ track = tStrobe /\ pc = "idle"
    /\ queries = <<>> /\ qi = 0 /\ calls = <<>> /\ lastResp = "none"
    /\ lastItems = <<>> /\ isrcRecords = <<>> /\ hits = 0
    /\ result = <<>> /\ retFrom = 0
    /\ PureIdle /\ LoopIdle

\* sync.py lines 345-363 (web_app.py lines 526-535): the early returns, else the
\* listing of the user's playlists and the search for the name
Decide ==
    /\ ppc = "start"
    /\ IF early_return(via, dry_run, matches) /= "none"
       THEN /\ ret' = early_return(via, dry_run, matches)
            /\ ppc' = "done"
            /\ UNCHANGED <<existing_playlist, plog, remote>>
       ELSE \E listing \in ListResponses, old \in OldContents :
            /\ existing_playlist' = find_existing(listing, playlist_name)
            /\ plog' = Append(plog, Call("get_user_playlists", NoneStr, listing, "ok"))
            /\ remote' = (IF Len(find_existing(listing, playlist_name)) > 0
                          THEN old ELSE <<>>)
            /\ ppc' = "resolve"
            /\ ret' = ret
    /\ UNCHANGED <<via, dry_run, playlist_id, track_ids, ai, success,
                   spc, si, all_spotify_tracks, events,
                   pureVars, searchVars, matchVars>>

\* sync.py lines 365-404 (web_app.py lines 538-558): the playlist is cleared or
\* created, the ids are collected and add_tracks_to_playlist is called
Resolve ==
    /\ ppc = "resolve"
    /\ \E outcome \in Outcomes :
       LET reuse == Len(existing_playlist) > 0
           cleared == clear_playlist_tracks(remote, outcome)
           id == IF reuse THEN existing_playlist[1].external_id
                 ELSE create_playlist(outcome)
           log1 == Append(plog,
                     IF reuse
                     THEN Call("clear_playlist_tracks", id, <<>>,
                               IF cleared.ok THEN "ok" ELSE "failed")
                     ELSE Call("create_playlist", NoneStr, playlist_name,
                               IF Truthy(id) THEN "ok" ELSE "failed"))
           ids == collect_track_ids(matches)
       IN  /\ playlist_id' = id
           /\ remote' = (IF reuse THEN cleared.contents ELSE <<>>)
           /\ IF ~Truthy(id)
              THEN /\ ret' = (IF via = "sync_tracklist_practical" THEN "False" ELSE "500")
                   /\ ppc' = "done"
                   /\ plog' = log1
                   /\ track_ids' = track_ids
              ELSE /\ track_ids' = ids
                   /\ IF Len(ids) > 0
                      THEN /\ plog' = Append(log1, Call("add_tracks_to_playlist", id, ids, "called"))
                           /\ ppc' = "add_enter"
                           /\ ret' = ret
                      ELSE /\ plog' = log1
                           /\ ppc' = "done"
                           /\ ret' = (IF via = "sync_tracklist_practical" THEN "True" ELSE "200")
    /\ UNCHANGED <<via, dry_run, existing_playlist, ai, success,
                   spc, si, all_spotify_tracks, events,
                   pureVars, searchVars, matchVars>>

\* add_tracks_to_playlist lines 651-659: the token check and the empty list
AddEnter ==
    /\ ppc = "add_enter"
    /\ IF ~access_token
       THEN ppc' = "raised" /\ success' = success
       ELSE IF Len(track_ids) = 0
       THEN ppc' = "returned" /\ success' = "True"
       ELSE ppc' = "adding" /\ success' = success
    /\ ai' = 0
    /\ UNCHANGED <<via, dry_run, existing_playlist, playlist_id, track_ids, plog,
                   remote, ret, spc, si, all_spotify_tracks, events,
                   pureVars, searchVars, matchVars>>

\* one iteration of the loop of line 659 (lines 660-676): the request for one
\* batch, which the catalog carries out or refuses
AddBatch ==
    /\ ppc = "adding"
    /\ \E ok \in BOOLEAN :
       /\ plog' = Append(plog, Call("post", playlist_id, batch_of(track_ids, ai),
                                    IF ok THEN "ok" ELSE "failed"))
       /\ remote' = (IF ok THEN remote \o batch_of(track_ids, ai) ELSE remote)
       /\ ai' = (IF ok THEN ai + batch_size ELSE ai)
       /\ IF ~ok THEN ppc' = "returned" /\ success' = "False"
          ELSE IF ai + batch_size >= Len(track_ids)
          THEN ppc' = "returned" /\ success' = "True"
          ELSE ppc' = "adding" /\ success' = success
    /\ UNCHANGED <<via, dry_run, existing_playlist, playlist_id, track_ids, ret,
                   spc, si, all_spotify_tracks, events,
                   pureVars, searchVars, matchVars>>

\* sync.py lines 398-412 (web_app.py lines 559-568): the return after
\* add_tracks_to_playlist
Finish ==
    /\ ppc = "returned"
    /\ via \in {"sync_tracklist_practical", "sync"}
    /\ ret' = return_after_add(via, success)
    /\ ppc' = "done"
    /\ UNCHANGED <<via, dry_run, existing_playlist, playlist_id, track_ids, ai,
                   success, plog, remote, spc, si, all_spotify_tracks, events,
                   pureVars, searchVars, matchVars>>

PlaylistNext ==
    \/ Decide
    \/ Resolve
    \/ AddEnter
    \/ AddBatch
    \/ Finish

PlaylistSpec == PlaylistInit /\ [][PlaylistNext]_vars

\* the ids "1", "2", ... "n"
Ids(n) == [k \in 1..n |-> IntToStr(k)]

\* add_tracks_to_playlist(playlist_id, track_ids) is called on its own
AddInit ==
    /\ via = "add_tracks_to_playlist" /\ dry_run = FALSE
    /\ ppc = "add_enter"
    /\ track_ids \in {Ids(n) : n \in 0..MaxIds}
    /\ playlist_id = sP1
    /\ existing_playlist = NoPlaylist
    /\ ai = 0 /\ success = "none" /\ plog = <<>> /\ remote = <<>> /\ ret = "none"
    /\ access_token \in BOOLEAN /\ enable_duration_filter = FALSE
    /\ input = tStrobe /\ track = tStrobe /\ pc = "idle"
    /\ queries = <<>> /\ qi = 0 /\ calls = <<>> /\ lastResp = "none"
    /\ lastItems = <<>> /\ isrcRecords = <<>> /\ hits = 0
    /\ result = <<>> /\ retFrom = 0
    /\ PureIdle /\ MatchIdle /\ LoopIdle

AddNext ==
    \/ AddEnter
    \/ AddBatch

AddSpec == AddInit /\ [][AddNext]_vars

-----------------------------------------------------------------------------
(* Claims about the playlist part of the sync (PlaylistSpec) *)

\* at least one source track was classified exact or fuzzy
SomeMatch == \E i \in 1..Len(matches) : matches[i].status \in {"exact", "fuzzy"}

Failure == {"False", "400", "500"}

\* C26: a playlist-touching call (listing, create, clear, add) is issued only
\* if the run is not a dry run and at least one source track was classified
\* exact or fuzzy; a dry run returns success, and a run that is not a dry run
\* and has no match returns failure, both without any playlist call.
C26_PlaylistCallsGuarded ==
    /\ Len(plog) > 0 => (~dry_run /\ SomeMatch)
    /\ (dry_run /\ ppc = "done") => (ret = "True" /\ Len(plog) = 0)
    /\ (~dry_run /\ ~SomeMatch /\ ppc = "done") => (ret \in Failure /\ Len(plog) = 0)

\* C26 as stated: every run with no matches returns failure, a dry run included
C26_AsStated ==
    /\ Len(plog) > 0 => (~dry_run /\ SomeMatch)
    /\ (dry_run /\ ppc = "done") => (ret = "True" /\ Len(plog) = 0)
    /\ (~SomeMatch /\ ppc = "done") => (ret \in Failure /\ Len(plog) = 0)

\* a dry run with no match has returned success, without any playlist call
C26_Witness ==
    /\ via = "sync_tracklist_practical" /\ dry_run
    /\ Len(tracklist_tracks) > 0 /\ ~SomeMatch
    /\ ppc = "done" /\ ret = "True" /\ Len(plog) = 0

\* the positions of plog that hold a call of op
CallsOf(op) == {k \in 1..Len(plog) : plog[k].op = op}

\* the listing returned to the sync holds a playlist with the target name
TargetListed ==
    \E k \in CallsOf("get_user_playlists") :
        \E j \in 1..Len(plog[k].arg) : plog[k].arg[j].name = playlist_name

\* the sync is past the branch of sync.py lines 365-375
Resolved ==
    /\ via \in {"sync_tracklist_practical", "sync"}
    /\ ppc \in {"add_enter", "adding", "returned", "done"}
    /\ CallsOf("get_user_playlists") /= {}

AddCalls == CallsOf("add_tracks_to_playlist") \cup CallsOf("post")

\* C27: when a playlist with the target name already exists, the sync reuses
\* it (create_playlist is not called, the calls go to its id) and calls
\* clear_playlist_tracks before any add_tracks_to_playlist call; when none
\* exists, create_playlist is called exactly once; add_tracks_to_playlist is
\* never called without a playlist id.
C27_ReuseOrCreateOnce ==
    /\ TargetListed =>
          /\ CallsOf("create_playlist") = {}
          /\ Resolved => Cardinality(CallsOf("clear_playlist_tracks")) = 1
          /\ \A a \in AddCalls :
                /\ \E c \in CallsOf("clear_playlist_tracks") : c < a
                /\ plog[a].id = existing_playlist[1].external_id
                /\ existing_playlist[1].name = playlist_name
    /\ (Resolved /\ ~TargetListed) =>
          /\ Cardinality(CallsOf("create_playlist")) = 1
          /\ CallsOf("clear_playlist_tracks") = {}
    /\ ~Resolved => CallsOf("create_playlist") = {}
    /\ \A a \in AddCalls :
          /\ Truthy(plog[a].id)
          /\ \/ \E c \in CallsOf("create_playlist") : c < a /\ plog[c].res = "ok"
             \/ \E c \in CallsOf("clear_playlist_tracks") : c < a

\* an existing playlist was cleared and then filled, and none was created
C27_Witness ==
    /\ ppc = "done" /\ TargetListed
    /\ CallsOf("clear_playlist_tracks") /= {}
    /\ CallsOf("post") /= {}
    /\ CallsOf("create_playlist") = {}

\* some call of op was refused by the catalog
FailedCall(op) == \E k \in CallsOf(op) : plog[k].res = "failed"

\* C28: a non-dry-run sync_tracklist_practical returns True only if the target
\* playlist ends up holding exactly the matched tracks: clearing an existing
\* playlist succeeded and add_tracks_to_playlist succeeded for every batch.
C28_TrueOnlyIfPlaylistExact ==
    (via = "sync_tracklist_practical" /\ ~dry_run /\ ret = "True") =>
        /\ remote = collect_track_ids(matches)
        /\ ~FailedCall("clear_playlist_tracks")
        /\ ~FailedCall("post")

\* the run returned True although the existing playlist could not be cleared
\* and a batch was refused: the playlist still holds its old track and none
\* of the matched ones
C28_TrueAfterFailures ==
    /\ via = "sync_tracklist_practical" /\ ~dry_run /\ ret = "True"
    /\ FailedCall("clear_playlist_tracks")
    /\ FailedCall("post")
    /\ remote = <<sOld>>
    /\ Len(collect_track_ids(matches)) > 0

-----------------------------------------------------------------------------
(* Claims about add_tracks_to_playlist (AddSpec) *)

\* the batch requests sent so far, in order
Posts == SelectSeq(plog, LAMBDA c : c.op = "post")
Batches == [k \in 1..Len(Posts) |-> Posts[k].arg]
AddedBatches ==
    [k \in 1..Len(SelectSeq(Posts, LAMBDA c : c.res = "ok")) |->
        SelectSeq(Posts, LAMBDA c : c.res = "ok")[k].arg]

\* C29: add_tracks_to_playlist sends the track ids in consecutive batches of at
\* most 100 whose concatenation is the input list in order; the batches go out
\* one after the other, the first failing batch is the last one sent, the
\* batches added before it stay in the playlist, the call returns True if and
\* only if every batch succeeded, and for an empty list it returns True
\* without any request. (A provider without access token raises before all of
\* this and sends nothing.)
C29_BatchesOfHundred ==
    /\ \A k \in 1..Len(Posts) :
          /\ Len(Batches[k]) \in 1..batch_size
          /\ k < Len(Posts) => Posts[k].res = "ok"
    /\ Len(Flatten(Batches)) <= Len(track_ids)
    /\ Flatten(Batches) = SubSeq(track_ids, 1, Len(Flatten(Batches)))
    /\ remote = Flatten(AddedBatches)
    /\ ppc = "returned" =>
          /\ success \in {"True", "False"}
          /\ success = "True" <=>
                /\ Flatten(Batches) = track_ids
                /\ \A k \in 1..Len(Posts) : Posts[k].res = "ok"
          /\ success = "False" => Posts[Len(Posts)].res = "failed"
          /\ Len(track_ids) = 0 => (success = "True" /\ Len(Posts) = 0)
    /\ ppc = "adding" => Len(Flatten(Batches)) < Len(track_ids)
    /\ (access_token /\ Len(track_ids) = 0 /\ ppc /= "add_enter") => ppc = "returned"
    /\ ~access_token => (Len(Posts) = 0 /\ ppc \in {"add_enter", "raised"})

\* the third batch of a list of more than 200 ids was refused: the call
\* returned False and the first 200 ids stay in the playlist
C29_Witness ==
    /\ via = "add_tracks_to_playlist"
    /\ ppc = "returned" /\ success = "False"
    /\ Len(Posts) = 3 /\ Len(Batches[1]) = batch_size /\ Len(Batches[3]) >= 1
    /\ Len(track_ids) > 2 * batch_size
    /\ remote = SubSeq(track_ids, 1, 2 * batch_size)

-----------------------------------------------------------------------------
(* Claims about the ids sent to the playlist (PlaylistSpec) *)

\* the source tracks classified s, in source order
IndicesOf(s) == SelectSeq([i \in 1..Len(matches) |-> i], LAMBDA i : matches[i].status = s)

\* the source tracks classified exact or fuzzy, in source order
MatchedIndices ==
    SelectSeq([i \in 1..Len(matches) |-> i],
              LAMBDA i : matches[i].status \in {"exact", "fuzzy"})

\* the id of the catalog track chosen for source track i
IdOf(i) == matches[i].spotify_track[1].external_id

\* track_ids has been built (sync.py line 396 is reached)
IdsCollected ==
    /\ via \in {"sync_tracklist_practical", "sync"}
    /\ ppc \in {"add_enter", "adding", "returned", "done"}
    /\ Truthy(playlist_id)

\* a fuzzy match stands before an exact match in the tracklist
FuzzyBeforeExact ==
    \E i, j \in 1..Len(matches) :
        i < j /\ matches[i].status = "fuzzy" /\ matches[j].status = "exact"

\* C30: the list of track ids sent to the playlist is the ids of all exact
\* matches in source order followed by the ids of all fuzzy matches in source
\* order, with no id for a no_match track and one entry per matched source
\* track (a catalog track matched by two source tracks appears twice); the
\* playlist order equals the tracklist order only when no fuzzy match precedes
\* an exact match.
C30_ExactThenFuzzyIds ==
    IdsCollected =>
        /\ Len(track_ids) = Len(MatchedIndices)
        /\ \A k \in 1..Len(track_ids) :
              /\ Len(matches[(IndicesOf("exact") \o IndicesOf("fuzzy"))[k]].spotify_track) = 1
              /\ track_ids[k] = IdOf((IndicesOf("exact") \o IndicesOf("fuzzy"))[k])
        /\ (\A k \in 1..Len(track_ids) :
               Len(matches[MatchedIndices[k]].spotify_track) = 1
                 /\ track_ids[k] = IdOf(MatchedIndices[k]))
             => ~FuzzyBeforeExact

\* a source track is classified fuzzy without a catalog track, no id is sent
\* for it, and the run creates a playlist, adds nothing and returns True
C30_FuzzyWithoutEntry ==
    /\ via = "sync_tracklist_practical" /\ ppc = "done" /\ ret = "True"
    /\ Len(matches) = 1 /\ matches[1].status = "fuzzy"
    /\ Len(matches[1].spotify_track) = 0
    /\ Len(track_ids) = 0
    /\ CallsOf("create_playlist") /= {}

====
